---- MODULE Spec2Model ----
(***************************************************************************)
(* A model of ragts: the ingest pipeline, community detection, community   *)
(* summaries and backup / validate / restore over the four tables          *)
(* documents, chunks, chunk_sources and document_relations.                *)
(*                                                                         *)
(* Texts are sequences of symbols.  A symbol of Block stands for one       *)
(* paragraph of exactly chunkSize characters (so the chunker can merge it  *)
(* with nothing), a symbol of Short for a run of fewer than MinChunkLen    *)
(* characters.  Optional values (SQL NULL, a JS undefined field) are the   *)
(* empty set, a present value v is {v}.                                    *)
(***************************************************************************)
EXTENDS Integers, Sequences, FiniteSets, TLC

VARIABLES documents, chunks, chunkSources, documentRelations, seqs, file,
          last, ops, origin, running, handle

vars == <<documents, chunks, chunkSources, documentRelations, seqs, file,
          last, ops, origin, running, handle>>

NULL == {}
Some(v) == {v}
TheVal(o) == CHOOSE v \in o : TRUE

(* ------------------------------ bounds -------------------------------- *)
MaxOps == 3
MaxCalls == 2
MaxDetectDocs == 3
MaxDetectRels == 3
MaxGraphHops == 3

(* --------------------------- program constants ------------------------ *)
Dimension == 2048
MinChunkLen == 50
DEFAULT_GRAPH_CHUNK_LIMIT == 200
DefaultLimit == 10
DefaultRrfK == 60

(* ------------------------------ texts --------------------------------- *)
Short == {"a", "b", "c"}
Block == {"P", "Q", "R", "S"}

SymLen(s) == IF s \in Block THEN MinChunkLen ELSE 1

computeHash(input) == <<"sha256", input>>

embed(text) == [dim |-> Dimension, of |-> text]

(* chunkText: the pieces of the content are its symbols (split at the      *)
(* paragraph level), no two pieces fit one chunk together, pieces shorter  *)
(* than MinChunkLen are filtered out, offsets are recovered in order.      *)
RECURSIVE buildOutputs(_, _)
buildOutputs(pieces, offset) ==
  IF pieces = <<>> THEN <<>>
  ELSE LET p == Head(pieces)
           len == SymLen(p)
       IN  IF len >= MinChunkLen
             THEN <<[text |-> <<p>>, startIndex |-> offset,
                     endIndex |-> offset + len, tokenCount |-> len]>>
                  \o buildOutputs(Tail(pieces), offset + len)
             ELSE buildOutputs(Tail(pieces), offset + len)

chunkText(content) == buildOutputs(content, 0)

(* --------------------------- small helpers ---------------------------- *)
MinId(S) == CHOOSE r \in S : \A o \in S : r.id <= o.id

RECURSIVE OrderById(_)
OrderById(S) == IF S = {} THEN <<>>
                ELSE LET r == MinId(S) IN <<r>> \o OrderById(S \ {r})

Range(s) == {s[i] : i \in DOMAIN s}

PushId(m, key, id) ==
  [k \in DOMAIN m \cup {key} |->
     IF k = key THEN (IF key \in DOMAIN m THEN Append(m[key], id) ELSE <<id>>)
     ELSE m[k]]

RECURSIVE PushIds(_, _)
PushIds(m, rows) ==
  IF rows = <<>> THEN m
  ELSE PushIds(PushId(m, Head(rows).title, Head(rows).id), Tail(rows))

NoMeta == [type |-> "none", communityId |-> NULL, memberTitles |-> <<>>]

(* ------------------------------ ingest -------------------------------- *)
parseRelTarget(target) ==
  IF target.kind = "string"
    THEN [title |-> target.title, type |-> NULL, weight |-> NULL]
    ELSE [title |-> target.title, type |-> target.type, weight |-> target.weight]

finalTextOf(c, doc, cfg) == IF cfg.transformChunk THEN doc.title \o c.text ELSE c.text

RECURSIVE AddChunks(_, _, _, _, _)
AddChunks(dedupMap, textChunks, doc, docId, cfg) ==
  IF textChunks = <<>> THEN dedupMap
  ELSE LET c == Head(textChunks)
           finalText == finalTextOf(c, doc, cfg)
           hash == computeHash(finalText)
           src == [docId |-> docId, endIndex |-> c.endIndex, startIndex |-> c.startIndex]
           hit == {j \in DOMAIN dedupMap : dedupMap[j].textHash = hash}
           next == IF hit # {}
                     THEN [dedupMap EXCEPT ![TheVal(hit)].sources = Append(@, src)]
                     ELSE Append(dedupMap, [sources |-> <<src>>, text |-> finalText,
                                            textHash |-> hash, tokenCount |-> c.tokenCount,
                                            embedding |-> NULL])
       IN  AddChunks(next, Tail(textChunks), doc, docId, cfg)

NewIngest(docs, cfg) ==
  [pc |-> IF docs = <<>> THEN "lookup" ELSE "docSelect",
   docs |-> docs, cfg |-> cfg, i |-> 1,
   documentsInserted |-> 0, duplicatesSkipped |-> 0,
   dedupMap |-> <<>>, docIds |-> <<>>, backupEntries |-> <<>>, titleToNewIds |-> <<>>,
   existingHashes |-> {}, newEntries |-> <<>>, chunkRows |-> <<>>, hashToId |-> <<>>,
   chunksInserted |-> 0, chunksReused |-> 0,
   relationsInserted |-> 0, unresolvedRelations |-> <<>>,
   titleToAllIds |-> <<>>, allIds |-> <<>>, updates |-> <<>>, communitiesDetected |-> 0]

AdvanceDoc(l) ==
  IF l.i < Len(l.docs) THEN [l EXCEPT !.i = @ + 1, !.pc = "docSelect"]
  ELSE [l EXCEPT !.i = @ + 1, !.pc = "lookup"]

(* A variant of DocSelect that never finds the stored document. *)
DocSelectFindsNothing(db, l) == [db |-> db, l |-> [l EXCEPT !.pc = "docInsert"]]

(* part_009 lines 35-41 *)
DocSelect(db, l) ==
  LET doc == l.docs[l.i]
      contentHash == computeHash(doc.title \o doc.content)
      existing == {d \in db.documents : d.contentHash = contentHash}
  IN  IF existing # {}
        THEN [db |-> db, l |-> AdvanceDoc([l EXCEPT !.duplicatesSkipped = @ + 1])]
        ELSE [db |-> db, l |-> [l EXCEPT !.pc = "docInsert"]]

(* part_009 lines 43-73; the unique index on content_hash rejects a row a  *)
(* parallel call inserted since the select.                                *)
DocInsert(db, l) ==
  LET doc == l.docs[l.i]
      contentHash == computeHash(doc.title \o doc.content)
      id == db.seqs.doc
      taken == [db EXCEPT !.seqs.doc = @ + 1]
  IN  IF \E d \in db.documents : d.contentHash = contentHash
        THEN [db |-> taken, l |-> [l EXCEPT !.pc = "failed"]]
        ELSE [db |-> [taken EXCEPT !.documents = @ \cup
                        {[id |-> id, title |-> doc.title, content |-> doc.content,
                          contentHash |-> contentHash, metadata |-> doc.metadata,
                          communityId |-> NULL]}],
              l |-> AdvanceDoc(
                      [l EXCEPT !.docIds = Append(@, id),
                                !.titleToNewIds = PushId(@, doc.title, id),
                                !.documentsInserted = @ + 1,
                                !.dedupMap = AddChunks(@, chunkText(doc.content), doc, id, l.cfg),
                                !.backupEntries = Append(@, [contentHash |-> contentHash,
                                                             doc |-> doc])])]

(* part_009 lines 79-101 *)
LookupExisting(db, l) ==
  LET allHashes == {l.dedupMap[j].textHash : j \in DOMAIN l.dedupMap}
      existingHashes == {h \in allHashes : \E c \in db.chunks : c.textHash = h}
  IN  [db |-> db,
       l |-> [l EXCEPT !.existingHashes = existingHashes,
                       !.newEntries = SelectSeq(l.dedupMap,
                                         LAMBDA e : e.textHash \notin existingHashes),
                       !.pc = "embed"]]

(* part_009 lines 103-121 *)
EmbedNew(db, l) ==
  LET embedded == [j \in DOMAIN l.newEntries |->
                     [l.newEntries[j] EXCEPT !.embedding = Some(embed(l.newEntries[j].text))]]
  IN  [db |-> db,
       l |-> [l EXCEPT !.newEntries = embedded,
                       !.chunkRows = SelectSeq(embedded, LAMBDA e : e.embedding # NULL),
                       !.pc = "insertChunks"]]

(* A variant of InsertChunkRows without ON CONFLICT DO NOTHING and without *)
(* the unique index on text_hash: every row is stored.                     *)
RECURSIVE InsertChunkRowsAll(_, _)
InsertChunkRowsAll(db, rows) ==
  IF rows = <<>> THEN db
  ELSE InsertChunkRowsAll(
         [db EXCEPT !.seqs.chunk = @ + 1,
                    !.chunks = @ \cup
                      {[id |-> db.seqs.chunk, text |-> Head(rows).text,
                        textHash |-> Head(rows).textHash,
                        tokenCount |-> Head(rows).tokenCount,
                        embedding |-> Head(rows).embedding]}],
         Tail(rows))

(* INSERT ... ON CONFLICT (text_hash) DO NOTHING: every row of the         *)
(* statement draws an id from the sequence, a row whose text_hash is       *)
(* stored is dropped.                                                      *)
RECURSIVE InsertChunkRows(_, _)
InsertChunkRows(db, rows) ==
  IF rows = <<>> THEN db
  ELSE LET r == Head(rows)
           id == db.seqs.chunk
           taken == [db EXCEPT !.seqs.chunk = @ + 1]
           next == IF \E c \in db.chunks : c.textHash = r.textHash THEN taken
                   ELSE [taken EXCEPT !.chunks = @ \cup
                           {[id |-> id, text |-> r.text, textHash |-> r.textHash,
                             tokenCount |-> r.tokenCount, embedding |-> r.embedding]}]
       IN  InsertChunkRows(next, Tail(rows))

(* part_009 lines 123-129 *)
InsertChunks(db, l) ==
  [db |-> InsertChunkRows(db, [j \in DOMAIN l.chunkRows |->
                                 [text |-> l.chunkRows[j].text,
                                  textHash |-> l.chunkRows[j].textHash,
                                  tokenCount |-> l.chunkRows[j].tokenCount,
                                  embedding |-> TheVal(l.chunkRows[j].embedding)]]),
   l |-> [l EXCEPT !.pc = "refetch"]]

(* part_009 lines 131-142 *)
Refetch(db, l) ==
  LET allHashes == {l.dedupMap[j].textHash : j \in DOMAIN l.dedupMap}
      found == {h \in allHashes : \E c \in db.chunks : c.textHash = h}
  IN  [db |-> db,
       l |-> [l EXCEPT !.hashToId = [h \in found |->
                                       (CHOOSE c \in db.chunks : c.textHash = h).id],
                       !.pc = "insertSources"]]

RECURSIVE SourceRowsOf(_, _)
SourceRowsOf(entries, hashToId) ==
  IF entries = <<>> THEN <<>>
  ELSE LET e == Head(entries)
           mine == IF e.textHash \in DOMAIN hashToId
                     THEN [j \in DOMAIN e.sources |->
                             [chunkId |-> hashToId[e.textHash],
                              documentId |-> e.sources[j].docId,
                              endIndex |-> e.sources[j].endIndex,
                              startIndex |-> e.sources[j].startIndex]]
                     ELSE <<>>
       IN  mine \o SourceRowsOf(Tail(entries), hashToId)

RECURSIVE InsertSourceRows(_, _)
InsertSourceRows(db, rows) ==
  IF rows = <<>> THEN db
  ELSE LET r == Head(rows)
       IN  InsertSourceRows(
             [db EXCEPT !.seqs.source = @ + 1,
                        !.chunkSources = @ \cup
                          {[id |-> db.seqs.source, chunkId |-> r.chunkId,
                            documentId |-> r.documentId, startIndex |-> r.startIndex,
                            endIndex |-> r.endIndex]}],
             Tail(rows))

(* part_009 lines 144-161 *)
InsertSources(db, l) ==
  [db |-> InsertSourceRows(db, SourceRowsOf(l.dedupMap, l.hashToId)),
   l |-> [l EXCEPT !.chunksInserted = Len(l.chunkRows),
                   !.chunksReused = Cardinality(l.existingHashes),
                   !.pc = "backup"]]

(* part_009 lines 163-207: one backup line per document this call inserted *)
RECURSIVE backupChunksOf(_, _, _, _)
backupChunksOf(textChunks, doc, cfg, hashToEmbedding) ==
  IF textChunks = <<>> THEN <<>>
  ELSE LET c == Head(textChunks)
           finalText == finalTextOf(c, doc, cfg)
           hash == computeHash(finalText)
           rest == backupChunksOf(Tail(textChunks), doc, cfg, hashToEmbedding)
       IN  IF hash \in DOMAIN hashToEmbedding
             THEN <<[embedding |-> Some(hashToEmbedding[hash]),
                     endIndex |-> Some(c.endIndex), startIndex |-> Some(c.startIndex),
                     text |-> finalText, tokenCount |-> Some(c.tokenCount)]>> \o rest
             ELSE rest

BackupAppend(db, l) ==
  IF ~l.cfg.backupPath THEN [db |-> db, l |-> [l EXCEPT !.pc = "relLookup"]]
  ELSE
    LET fresh == {l.newEntries[j].textHash : j \in
                    {k \in DOMAIN l.newEntries : l.newEntries[k].embedding # NULL}}
        stored == {h \in l.existingHashes : \E c \in db.chunks : c.textHash = h}
        hashToEmbedding ==
          [h \in fresh \cup stored |->
             IF h \in stored THEN (CHOOSE c \in db.chunks : c.textHash = h).embedding
             ELSE embed((CHOOSE c \in Range(l.newEntries) : c.textHash = h).text)]
        lines == [j \in DOMAIN l.backupEntries |->
                    LET be == l.backupEntries[j]
                    IN  [json |-> TRUE,
                         chunks |-> Some(backupChunksOf(chunkText(be.doc.content), be.doc,
                                                        l.cfg, hashToEmbedding)),
                         content |-> Some(be.doc.content),
                         contentHash |-> Some(be.contentHash),
                         metadata |-> be.doc.metadata,
                         title |-> Some(be.doc.title),
                         communityId |-> NULL, relations |-> <<>>]]
    IN  [db |-> [db EXCEPT !.file = @ \o lines], l |-> [l EXCEPT !.pc = "relLookup"]]

(* part_009 lines 212-242 *)
RelLookup(db, l) ==
  IF l.cfg.relations = NULL THEN [db |-> db, l |-> [l EXCEPT !.pc = "done"]]
  ELSE
    LET rels == TheVal(l.cfg.relations)
        allRelationTitles ==
          {rels[j].source : j \in DOMAIN rels}
            \cup UNION {{parseRelTarget(rels[j].targets[k]).title : k \in DOMAIN rels[j].targets}
                          : j \in DOMAIN rels}
        missingTitles == {t \in allRelationTitles : t \notin DOMAIN l.titleToNewIds}
        rows == OrderById({d \in db.documents : d.title \in missingTitles})
    IN  [db |-> db,
         l |-> [l EXCEPT !.titleToAllIds = PushIds(l.titleToNewIds, rows),
                         !.pc = "relInsert"]]

(* A variant of relationRowsOf that resolves a target title only to        *)
(* documents inserted before every source document, as a call would that   *)
(* wrote the relations of each document right after inserting it.          *)
RECURSIVE relationRowsOfEarlier(_, _, _, _)
relationRowsOfEarlier(sourceTitle, sourceIds, targets, titleToAllIds) ==
  IF targets = <<>> THEN [rows |-> <<>>, unresolved |-> <<>>]
  ELSE LET target == parseRelTarget(Head(targets))
           rest == relationRowsOfEarlier(sourceTitle, sourceIds, Tail(targets), titleToAllIds)
           earlier == IF target.title \in DOMAIN titleToAllIds
                        THEN SelectSeq(titleToAllIds[target.title],
                                       LAMBDA t : \A j \in DOMAIN sourceIds : t < sourceIds[j])
                        ELSE <<>>
           n == Len(earlier)
           pairs == [x \in 1..(Len(sourceIds) * n) |->
                       [relType |-> target.type,
                        sourceId |-> sourceIds[((x - 1) \div n) + 1],
                        targetId |-> earlier[((x - 1) % n) + 1],
                        weight |-> target.weight]]
       IN  IF target.title = sourceTitle THEN rest
           ELSE IF n > 0 THEN [rest EXCEPT !.rows = pairs \o @]
           ELSE [rest EXCEPT !.unresolved = <<target.title>> \o @]

(* part_009 lines 244-261 *)
RECURSIVE relationRowsOf(_, _, _, _)
relationRowsOf(sourceTitle, sourceIds, targets, titleToAllIds) ==
  IF targets = <<>> THEN [rows |-> <<>>, unresolved |-> <<>>]
  ELSE LET target == parseRelTarget(Head(targets))
           rest == relationRowsOf(sourceTitle, sourceIds, Tail(targets), titleToAllIds)
       IN  IF target.title = sourceTitle THEN rest
           ELSE IF target.title \in DOMAIN titleToAllIds
             THEN LET targetIds == titleToAllIds[target.title]
                      n == Len(targetIds)
                      pairs == [x \in 1..(Len(sourceIds) * n) |->
                                  [relType |-> target.type,
                                   sourceId |-> sourceIds[((x - 1) \div n) + 1],
                                   targetId |-> targetIds[((x - 1) % n) + 1],
                                   weight |-> target.weight]]
                  IN  [rest EXCEPT !.rows = pairs \o @]
             ELSE [rest EXCEPT !.unresolved = <<target.title>> \o @]

RECURSIVE relationRows(_, _)
relationRows(rels, titleToAllIds) ==
  IF rels = <<>> THEN [rows |-> <<>>, unresolved |-> <<>>]
  ELSE LET r == Head(rels)
           rest == relationRows(Tail(rels), titleToAllIds)
       IN  IF r.source \in DOMAIN titleToAllIds
             THEN LET mine == relationRowsOf(r.source, titleToAllIds[r.source],
                                             r.targets, titleToAllIds)
                  IN  [rows |-> mine.rows \o rest.rows,
                       unresolved |-> mine.unresolved \o rest.unresolved]
             ELSE rest

(* INSERT INTO document_relations ... ON CONFLICT DO NOTHING RETURNING id: *)
(* unique (source_id, target_id); weight defaults to 1.                    *)
RECURSIVE InsertRelationRows(_, _)
InsertRelationRows(acc, rows) ==
  IF rows = <<>> THEN acc
  ELSE LET r == Head(rows)
           db == acc.db
           taken == [db EXCEPT !.seqs.rel = @ + 1]
           clash == \E e \in db.documentRelations :
                       e.sourceId = r.sourceId /\ e.targetId = r.targetId
           next == IF clash THEN [db |-> taken, inserted |-> acc.inserted]
                   ELSE [db |-> [taken EXCEPT !.documentRelations = @ \cup
                                   {[id |-> db.seqs.rel, sourceId |-> r.sourceId,
                                     targetId |-> r.targetId, relType |-> r.relType,
                                     weight |-> IF r.weight = NULL THEN 1
                                                ELSE TheVal(r.weight)]}],
                         inserted |-> acc.inserted + 1]
       IN  InsertRelationRows(next, Tail(rows))

(* part_009 lines 244-275 *)
relationsDone(l, done, unresolved) ==
  [db |-> done.db,
   l |-> [l EXCEPT !.relationsInserted = done.inserted,
                   !.unresolvedRelations = unresolved,
                   !.pc = "dcDocs"]]

insertRelations(db, l, rr) ==
  relationsDone(l, InsertRelationRows([db |-> db, inserted |-> 0], rr.rows), rr.unresolved)

RelInsert(db, l) ==
  insertRelations(db, l, relationRows(TheVal(l.cfg.relations), l.titleToAllIds))

(* ------------------------ community detection ------------------------- *)
SetKey(f, k, v) == [x \in DOMAIN f \cup {k} |-> IF x = k THEN v ELSE f[x]]

RECURSIVE FindRoot(_, _)
FindRoot(parent, root) ==
  IF root \in DOMAIN parent /\ parent[root] # root
    THEN FindRoot(parent, parent[root]) ELSE root

RECURSIVE Compress(_, _, _)
Compress(parent, curr, root) ==
  IF curr = root THEN parent
  ELSE LET next == IF curr \in DOMAIN parent THEN parent[curr] ELSE root
       IN  Compress(SetKey(parent, curr, root), next, root)

find(parent, x) ==
  LET root == FindRoot(parent, x)
  IN  [root |-> root, parent |-> Compress(parent, x, root)]

(* A variant of union that joins nothing. *)
unionNothing(parent, a, b) == parent

link(ra, fb) == IF ra # fb.root THEN SetKey(fb.parent, ra, fb.root) ELSE fb.parent

findSecond(fa, b) == link(fa.root, find(fa.parent, b))

union(parent, a, b) == findSecond(find(parent, a), b)

RECURSIVE unionAll(_, _)
unionAll(parent, relRows) ==
  IF relRows = <<>> THEN parent
  ELSE unionAll(union(parent, Head(relRows).sourceId, Head(relRows).targetId),
                Tail(relRows))

(* part_017 lines 45-64: community numbers in the order roots are first    *)
(* seen; the result maps every id to its number.                           *)
RECURSIVE assignCommunities(_, _, _, _), assignRoot(_, _, _, _)
assignCommunities(parent, ids, rootToId, idToCommunity) ==
  IF ids = <<>> THEN idToCommunity
  ELSE assignRoot(find(parent, Head(ids)), ids, rootToId, idToCommunity)

assignRoot(f, ids, rootToId, idToCommunity) ==
  LET known == f.root \in DOMAIN rootToId
      cId == IF known THEN rootToId[f.root] ELSE Cardinality(DOMAIN rootToId)
  IN  assignCommunities(f.parent, Tail(ids),
                        IF known THEN rootToId ELSE SetKey(rootToId, f.root, cId),
                        SetKey(idToCommunity, Head(ids), cId))

groupByCommunity(idToCommunity) ==
  LET cIds == {idToCommunity[id] : id \in DOMAIN idToCommunity}
  IN  [cId \in 0..(Cardinality(cIds) - 1) |->
         {id \in DOMAIN idToCommunity : idToCommunity[id] = cId}]

communitiesOf(allIds, relRows) ==
  groupByCommunity(assignCommunities(unionAll([id \in Range(allIds) |-> id], relRows),
                                     allIds, <<>>, <<>>))

(* part_017 lines 10-14 *)
DcDocs(db, l) ==
  LET docRows == OrderById(db.documents)
  IN  IF docRows = <<>>
        THEN [db |-> db, l |-> [l EXCEPT !.communitiesDetected = 0, !.pc = "done"]]
        ELSE [db |-> db,
              l |-> [l EXCEPT !.allIds = [j \in DOMAIN docRows |-> docRows[j].id],
                              !.pc = "dcRels"]]

(* part_017 lines 16-64 *)
updatesOf(comm) ==
  [j \in 1..Cardinality(DOMAIN comm) |-> [cId |-> j - 1, ids |-> comm[j - 1]]]

DcRels(db, l) ==
  [db |-> db,
   l |-> [l EXCEPT !.updates = updatesOf(communitiesOf(l.allIds,
                                                       OrderById(db.documentRelations))),
                   !.communitiesDetected = Len(updatesOf(communitiesOf(
                                                 l.allIds, OrderById(db.documentRelations)))),
                   !.pc = "dcUpdate"]]

(* part_017 lines 66-74: one UPDATE per community *)
DcUpdate(db, l) ==
  IF l.updates = <<>> THEN [db |-> db, l |-> [l EXCEPT !.pc = "done"]]
  ELSE LET u == Head(l.updates)
       IN  [db |-> [db EXCEPT !.documents =
                      {IF d.id \in u.ids THEN [d EXCEPT !.communityId = Some(u.cId)] ELSE d
                         : d \in @}],
            l |-> [l EXCEPT !.updates = Tail(@),
                            !.pc = IF Len(l.updates) = 1 THEN "done" ELSE "dcUpdate"]]

(* One statement (one await) of ingest or detectCommunities.               *)
IngestStep(db, l) ==
  CASE l.pc = "docSelect"     -> DocSelect(db, l)
    [] l.pc = "docInsert"     -> DocInsert(db, l)
    [] l.pc = "lookup"        -> LookupExisting(db, l)
    [] l.pc = "embed"         -> EmbedNew(db, l)
    [] l.pc = "insertChunks"  -> InsertChunks(db, l)
    [] l.pc = "refetch"       -> Refetch(db, l)
    [] l.pc = "insertSources" -> InsertSources(db, l)
    [] l.pc = "backup"        -> BackupAppend(db, l)
    [] l.pc = "relLookup"     -> RelLookup(db, l)
    [] l.pc = "relInsert"     -> RelInsert(db, l)
    [] l.pc = "dcDocs"        -> DcDocs(db, l)
    [] l.pc = "dcRels"        -> DcRels(db, l)
    [] l.pc = "dcUpdate"      -> DcUpdate(db, l)

RECURSIVE RunIngest(_)
RunIngest(st) ==
  IF st.l.pc \in {"done", "failed"} THEN st ELSE RunIngest(IngestStep(st.db, st.l))

Dedup(s) == {s[j] : j \in DOMAIN s}

(* part_009 lines 281-289 *)
IngestResult(l) ==
  [chunksInserted |-> l.chunksInserted, chunksReused |-> l.chunksReused,
   communitiesDetected |-> l.communitiesDetected,
   documentsInserted |-> l.documentsInserted,
   duplicatesSkipped |-> l.duplicatesSkipped,
   relationsInserted |-> l.relationsInserted,
   unresolvedRelations |-> Dedup(l.unresolvedRelations)]

ingest(db, docs, cfg) == RunIngest([db |-> db, l |-> NewIngest(docs, cfg)])

(* part_009 line 107: `await config.embed(batch)` rejects and ingest        *)
(* rejects with it; there is no transaction, so what the earlier           *)
(* statements wrote stays.                                                 *)
EmbedRaises(db, l) == [db |-> db, l |-> [l EXCEPT !.pc = "failed"]]

RECURSIVE RunUntilEmbed(_)
RunUntilEmbed(st) ==
  IF st.l.pc \in {"embed", "done", "failed"} THEN st
  ELSE RunUntilEmbed(IngestStep(st.db, st.l))

(* embed is called once per batch of new texts (lines 105-107): without a  *)
(* new text it is not called and cannot raise.                             *)
ingestEmbedRaising(db, docs, cfg) ==
  LET st == RunUntilEmbed([db |-> db, l |-> NewIngest(docs, cfg)])
  IN  IF st.l.pc = "embed" /\ st.l.newEntries # <<>>
        THEN EmbedRaises(st.db, st.l)
        ELSE RunIngest(st)

detectCommunities(db) ==
  RunIngest([db |-> db,
             l |-> [NewIngest(<<>>, [relations |-> NULL, backupPath |-> FALSE,
                                     transformChunk |-> FALSE]) EXCEPT !.pc = "dcDocs"]])

(* ------------------------------ backup -------------------------------- *)
(* A backup line is [json |-> FALSE] (not JSON) or a parsed object: title, *)
(* content, contentHash and chunks are optional (a missing or mistyped     *)
(* field is NULL), communityId is NULL or {[int, v]} (int = FALSE: not an  *)
(* integer), each chunk's embedding, startIndex, endIndex and tokenCount   *)
(* are optional, relations is a list of [kind, title, type, weight].       *)

(* backup.ts lines 67-88: the chunks of one document, by chunk id *)
exportChunksOf(db, docId) ==
  LET srcs == {cs \in db.chunkSources : cs.documentId = docId}
      keyed == {[id |-> <<cs.chunkId, cs.id>>, cs |-> cs] : cs \in srcs}
      Less(x, y) == x[1] < y[1] \/ (x[1] = y[1] /\ x[2] <= y[2])
      Sorted[S \in SUBSET keyed] ==
        IF S = {} THEN <<>>
        ELSE LET m == CHOOSE r \in S : \A o \in S : Less(r.id, o.id)
             IN  <<m.cs>> \o Sorted[S \ {m}]
      ordered == Sorted[keyed]
  IN  [j \in DOMAIN ordered |->
         LET c == CHOOSE c \in db.chunks : c.id = ordered[j].chunkId
         IN  [embedding |-> Some(c.embedding), endIndex |-> Some(ordered[j].endIndex),
              startIndex |-> Some(ordered[j].startIndex), text |-> c.text,
              tokenCount |-> Some(c.tokenCount)]]

(* backup.ts lines 108-118: a relation is written under its source, by the *)
(* title of its target; a falsy title, type or a weight of 1 is left out.  *)
RECURSIVE exportRelationsOf(_, _, _)
exportRelationsOf(db, docId, relRows) ==
  IF relRows = <<>> THEN <<>>
  ELSE LET rel == Head(relRows)
           rest == exportRelationsOf(db, docId, Tail(relRows))
           target == {d \in db.documents : d.id = rel.targetId}
       IN  IF rel.sourceId = docId /\ target # {} /\ TheVal(target).title # <<>>
             THEN <<[kind |-> "object", title |-> TheVal(target).title,
                     type |-> IF rel.relType # NULL /\ TheVal(rel.relType) # ""
                                THEN rel.relType ELSE NULL,
                     weight |-> IF rel.weight # 1 THEN Some(rel.weight) ELSE NULL]>> \o rest
             ELSE rest

(* backup.ts lines 34-130 *)
exportLines(db) ==
  LET docs == OrderById(db.documents)
      relRows == OrderById(db.documentRelations)
  IN  [j \in DOMAIN docs |->
         [json |-> TRUE,
          chunks |-> Some(exportChunksOf(db, docs[j].id)),
          communityId |-> IF docs[j].communityId = NULL THEN NULL
                          ELSE Some([int |-> TRUE, v |-> TheVal(docs[j].communityId)]),
          content |-> Some(docs[j].content),
          contentHash |-> Some(docs[j].contentHash),
          metadata |-> docs[j].metadata,
          title |-> Some(docs[j].title),
          relations |-> exportRelationsOf(db, docs[j].id, relRows)]]

exportBackup(db) ==
  LET lines == exportLines(db)
  IN  [db |-> [db EXCEPT !.file = lines], documentsExported |-> Len(lines)]

Falsy(field) == field = NULL \/ TheVal(field) = <<>>

(* backup.ts lines 140-161: the errors of one line *)
lineErrors(line) ==
  IF ~line.json THEN {"invalid JSON"}
  ELSE (IF Falsy(line.title) THEN {"missing or invalid title"} ELSE {})
       \cup (IF Falsy(line.content) THEN {"missing or invalid content"} ELSE {})
       \cup (IF Falsy(line.contentHash) THEN {"missing or invalid contentHash"} ELSE {})
       \cup (IF line.chunks = NULL THEN {"missing or invalid chunks array"}
             ELSE IF \E c \in Range(TheVal(line.chunks)) : c.embedding = NULL
               THEN {"chunk missing embedding array"} ELSE {})

lineDimensions(line) ==
  IF ~line.json \/ line.chunks = NULL THEN {}
  ELSE {TheVal(c.embedding).dim : c \in {x \in Range(TheVal(line.chunks)) : x.embedding # NULL}}

RECURSIVE totalChunksOf(_)
totalChunksOf(lines) ==
  IF lines = <<>> THEN 0
  ELSE (IF Head(lines).json /\ Head(lines).chunks # NULL
          THEN Len(TheVal(Head(lines).chunks)) ELSE 0) + totalChunksOf(Tail(lines))

(* A variant of validateBackupLines that accepts a file whose chunks have  *)
(* more than one embedding length.                                         *)
validateErrorsOnly(lines) ==
  [dimensions |-> {}, duplicateHashes |-> {},
   errors |-> UNION {{<<i, e>> : e \in lineErrors(lines[i])} : i \in DOMAIN lines},
   totalChunks |-> totalChunksOf(lines), totalDocuments |-> Len(lines),
   valid |-> \A i \in DOMAIN lines : lineErrors(lines[i]) = {}]

(* backup.ts lines 131-175 *)
validateBackupLines(lines) ==
  LET errs == UNION {{<<i, e>> : e \in lineErrors(lines[i])} : i \in DOMAIN lines}
      dimensions == UNION {lineDimensions(lines[i]) : i \in DOMAIN lines}
      hashed == {i \in DOMAIN lines : lines[i].json /\ lines[i].contentHash # NULL}
  IN  [dimensions |-> dimensions,
       duplicateHashes |-> {TheVal(lines[i].contentHash) : i \in
                              {k \in hashed : \E m \in hashed :
                                 m # k /\ lines[m].contentHash = lines[k].contentHash}},
       errors |-> errs,
       totalChunks |-> totalChunksOf(lines),
       totalDocuments |-> Len(lines),
       valid |-> errs = {} /\ Cardinality(dimensions) <= 1]

(* backup.ts lines 24-33 *)
normalizeRelations(rels) ==
  IF rels = <<>> THEN <<>>
  ELSE IF Head(rels).kind = "string"
    THEN [j \in DOMAIN rels |->
            [title |-> IF rels[j].kind = "string" THEN Some(rels[j].title) ELSE NULL,
             type |-> NULL, weight |-> NULL]]
    ELSE [j \in DOMAIN rels |->
            [title |-> IF rels[j].kind = "object" THEN Some(rels[j].title) ELSE NULL,
             type |-> IF rels[j].kind = "object" THEN rels[j].type ELSE NULL,
             weight |-> IF rels[j].kind = "object" THEN rels[j].weight ELSE NULL]]

(* What the tables accept: community_id is an integer, embedding is a      *)
(* vector(Dimension), token_count, start_index and end_index are NOT NULL. *)
documentRowOk(line) == line.communityId = NULL \/ TheVal(line.communityId).int
chunkRowOk(c) == TheVal(c.embedding).dim = Dimension /\ c.tokenCount # NULL
sourceRowOk(c) == c.startIndex # NULL /\ c.endIndex # NULL

(* backup.ts lines 238-265: the chunks of one document, inside its         *)
(* transaction; ok = FALSE when a statement was rejected.                  *)
RECURSIVE importChunks(_, _, _, _)
importChunks(db, docId, cs, count) ==
  IF cs = <<>> THEN [db |-> db, ok |-> TRUE, count |-> count]
  ELSE LET chunk == Head(cs)
           textHash == computeHash(chunk.text)
       IN  IF ~chunkRowOk(chunk) THEN [db |-> db, ok |-> FALSE, count |-> count]
           ELSE LET withChunk ==
                      InsertChunkRows(db, <<[text |-> chunk.text, textHash |-> textHash,
                                             tokenCount |-> TheVal(chunk.tokenCount),
                                             embedding |-> TheVal(chunk.embedding)]>>)
                    chunkRow == CHOOSE c \in withChunk.chunks : c.textHash = textHash
                IN  IF ~sourceRowOk(chunk)
                      THEN [db |-> withChunk, ok |-> FALSE, count |-> count]
                      ELSE importChunks(
                             InsertSourceRows(withChunk,
                               <<[chunkId |-> chunkRow.id, documentId |-> docId,
                                  startIndex |-> TheVal(chunk.startIndex),
                                  endIndex |-> TheVal(chunk.endIndex)]>>),
                             docId, Tail(cs), count + 1)

(* A variant of Rollback that keeps the writes of the failed transaction. *)
KeepWrites(before, after) == after

(* A failed transaction leaves the tables as they were; the ids it drew    *)
(* from the sequences are not given back.                                  *)
Rollback(before, after) == [before EXCEPT !.seqs = after.seqs]

endTransaction(before, r) ==
  IF r.ok THEN r ELSE [db |-> Rollback(before, r.db), ok |-> FALSE, count |-> 0]

(* backup.ts lines 224-268: db.transaction for one document *)
importDocument(db, line) ==
  LET id == db.seqs.doc
      taken == [db EXCEPT !.seqs.doc = @ + 1]
      clash == \E d \in db.documents : d.contentHash = TheVal(line.contentHash)
  IN  IF ~documentRowOk(line) \/ clash
        THEN endTransaction(db, [db |-> taken, ok |-> FALSE, count |-> 0])
        ELSE endTransaction(db,
               importChunks([taken EXCEPT !.documents = @ \cup
                               {[id |-> id, title |-> TheVal(line.title),
                                 content |-> TheVal(line.content),
                                 contentHash |-> TheVal(line.contentHash),
                                 metadata |-> line.metadata,
                                 communityId |-> IF line.communityId = NULL THEN NULL
                                                 ELSE Some(TheVal(line.communityId).v)]}],
                            id, TheVal(line.chunks), 0))

(* backup.ts lines 199-271 *)
afterDocument(acc, r) ==
  IF ~r.ok THEN [acc EXCEPT !.db = r.db, !.failedAt = acc.i]
  ELSE [acc EXCEPT !.i = @ + 1, !.db = r.db, !.chunksInserted = @ + r.count,
                   !.documentsImported = @ + 1]

RECURSIVE importDocuments(_, _, _)
importDocuments(acc, lines, dimension) ==
  IF acc.i > Len(lines) \/ acc.failedAt # 0 THEN acc
  ELSE LET doc == lines[acc.i]
           cs == TheVal(doc.chunks)
           isDimensionMismatch ==
             dimension # NULL /\ cs # <<>>
               /\ TheVal(Head(cs).embedding).dim # TheVal(dimension)
           step == [acc EXCEPT !.i = @ + 1]
       IN  IF isDimensionMismatch
             THEN importDocuments([step EXCEPT !.warnings = @ + 1], lines, dimension)
           ELSE IF \E d \in acc.db.documents : d.contentHash = TheVal(doc.contentHash)
             THEN importDocuments([step EXCEPT !.duplicatesSkipped = @ + 1,
                                               !.warnings = @ + 1], lines, dimension)
           ELSE importDocuments(afterDocument(acc, importDocument(acc.db, doc)),
                                lines, dimension)

(* backup.ts lines 273-286 *)
RECURSIVE titleToImportedIdsOf(_, _, _)
titleToImportedIdsOf(db, lines, m) ==
  IF lines = <<>> THEN m
  ELSE LET doc == Head(lines)
           inserted == {d \in db.documents : d.contentHash = TheVal(doc.contentHash)}
       IN  titleToImportedIdsOf(db, Tail(lines),
             IF inserted # {} THEN PushId(m, TheVal(doc.title), TheVal(inserted).id) ELSE m)

(* backup.ts lines 294-309: the relation rows of one line *)
RECURSIVE importRelationRowsOf(_, _, _, _)
importRelationRowsOf(docTitle, sourceIds, rels, titleToImportedIds) ==
  IF rels = <<>> THEN <<>>
  ELSE LET rel == Head(rels)
           rest == importRelationRowsOf(docTitle, sourceIds, Tail(rels), titleToImportedIds)
       IN  IF rel.title # NULL /\ TheVal(rel.title) # docTitle
                /\ TheVal(rel.title) \in DOMAIN titleToImportedIds
             THEN LET targetIds == titleToImportedIds[TheVal(rel.title)]
                      n == Len(targetIds)
                  IN  [x \in 1..(Len(sourceIds) * n) |->
                         [relType |-> rel.type,
                          sourceId |-> sourceIds[((x - 1) \div n) + 1],
                          targetId |-> targetIds[((x - 1) % n) + 1],
                          weight |-> rel.weight]] \o rest
             ELSE rest

(* backup.ts lines 288-311 *)
RECURSIVE importRelations(_, _, _)
importRelations(db, lines, titleToImportedIds) ==
  IF lines = <<>> THEN db
  ELSE LET doc == Head(lines)
           rels == normalizeRelations(doc.relations)
           rows == IF TheVal(doc.title) \in DOMAIN titleToImportedIds
                     THEN importRelationRowsOf(TheVal(doc.title),
                                               titleToImportedIds[TheVal(doc.title)],
                                               rels, titleToImportedIds)
                     ELSE <<>>
       IN  importRelations(InsertRelationRows([db |-> db, inserted |-> 0], rows).db,
                           Tail(lines), titleToImportedIds)

(* backup.ts lines 181-314; error: "none", "validation" (the thrown        *)
(* "Backup validation failed") or "database" (a rejected statement).       *)
importResult(d, lines) ==
  [db |-> IF d.failedAt # 0 THEN d.db
          ELSE importRelations(d.db, lines, titleToImportedIdsOf(d.db, lines, <<>>)),
   error |-> IF d.failedAt # 0 THEN "database" ELSE "none",
   failedAt |-> d.failedAt,
   documentsImported |-> d.documentsImported,
   chunksInserted |-> d.chunksInserted,
   duplicatesSkipped |-> d.duplicatesSkipped,
   warnings |-> d.warnings]

importBackup(db, lines, dimension) ==
  IF ~validateBackupLines(lines).valid
    THEN [db |-> db, error |-> "validation", failedAt |-> 0, documentsImported |-> 0,
          chunksInserted |-> 0, duplicatesSkipped |-> 0, warnings |-> 0]
    ELSE importResult(importDocuments([db |-> db, i |-> 1, documentsImported |-> 0,
                                       chunksInserted |-> 0, duplicatesSkipped |-> 0,
                                       warnings |-> 0, failedAt |-> 0],
                                      lines, dimension),
                      lines)

(* ------------------------ community summaries ------------------------- *)
isSummary(d) == d.metadata.type = "community_summary"

(* part_017 line 88, with the cascades of chunk_sources and                *)
(* document_relations                                                      *)
(* A variant of deleteSummaries that deletes nothing. *)
deleteSummariesNone(db) == db

deleteSummaries(db) ==
  LET gone == {d.id : d \in {x \in db.documents : isSummary(x)}}
  IN  [db EXCEPT !.documents = {d \in @ : d.id \notin gone},
                 !.chunkSources = {cs \in @ : cs.documentId \notin gone},
                 !.documentRelations =
                   {r \in @ : r.sourceId \notin gone /\ r.targetId \notin gone}]

summarize(docs) == <<"S">>

summaryIngested(acc, r) ==
  [db |-> r.db, communitiesProcessed |-> acc.communitiesProcessed + 1,
   summariesGenerated |-> acc.summariesGenerated + 1,
   docIds |-> acc.docIds \o r.l.docIds]

(* part_017 lines 109-129 *)
RECURSIVE summarizeCommunities(_, _, _, _)
summarizeCommunities(acc, cIds, members, minSize) ==
  IF cIds = <<>> THEN acc
  ELSE LET cId == Head(cIds)
           docs == OrderById({d \in members : d.communityId = Some(cId)})
       IN  IF Len(docs) < minSize
             THEN summarizeCommunities(acc, Tail(cIds), members, minSize)
             ELSE summarizeCommunities(
                    summaryIngested(acc,
                      ingest(acc.db,
                             <<[content |-> summarize(docs),
                                metadata |-> [type |-> "community_summary",
                                              communityId |-> Some(cId),
                                              memberTitles |->
                                                [j \in DOMAIN docs |-> docs[j].title]],
                                title |-> <<"_ragts_community_", ToString(cId)>>]>>,
                             [relations |-> NULL, backupPath |-> FALSE,
                              transformChunk |-> FALSE])),
                    Tail(cIds), members, minSize)

RECURSIVE Ascending(_)
Ascending(S) == IF S = {} THEN <<>>
                ELSE LET m == CHOOSE x \in S : \A y \in S : x <= y
                     IN  <<m>> \o Ascending(S \ {m})

(* part_017 lines 76-132 *)
buildCommunitySummaries(db, minSize) ==
  LET cleared == deleteSummaries(db)
      members == {d \in cleared.documents : d.communityId # NULL /\ ~isSummary(d)}
      cIds == Ascending({TheVal(d.communityId) : d \in members})
  IN  summarizeCommunities([db |-> cleared, communitiesProcessed |-> 0,
                            summariesGenerated |-> 0, docIds |-> <<>>],
                           cIds, members, minSize)

(* ------------------------------ search -------------------------------- *)
(* Scores, weights and similarities are rationals <<numerator,            *)
(* denominator>> with a positive denominator.                              *)
Num(n) == <<n, 1>>
Less(a, b) == a[1] * b[2] < b[1] * a[2]
Same(a, b) == a[1] * b[2] = b[1] * a[2]
Plus(a, b) == <<a[1] * b[2] + b[1] * a[2], a[2] * b[2]>>
Times(a, b) == <<a[1] * b[1], a[2] * b[2]>>
Over(a, n) == <<a[1], a[2] * n>>

Max(S) == CHOOSE m \in S : \A o \in S : o <= m
Least(a, b) == IF a < b THEN a ELSE b

(* chunks INNER JOIN chunk_sources INNER JOIN documents *)
Joined(db) ==
  {j \in [cs : db.chunkSources, chunk : db.chunks, doc : db.documents] :
     j.cs.chunkId = j.chunk.id /\ j.cs.documentId = j.doc.id}

(* GROUP BY chunks.id, chunks.text, documents.title, documents.community_id *)
(* with MAX(chunk_sources.document_id): one row for each title and         *)
(* community the chunk is linked to.                                       *)
Grouped(joined, mode, scoreOf) ==
  {[communityId |-> j.doc.communityId,
    documentId |-> Max({h.doc.id : h \in {x \in joined :
                           /\ x.chunk.id = j.chunk.id
                           /\ x.doc.title = j.doc.title
                           /\ x.doc.communityId = j.doc.communityId}}),
    id |-> j.chunk.id, mode |-> mode, relationType |-> NULL,
    score |-> scoreOf[j.chunk.id], text |-> j.chunk.text, title |-> j.doc.title]
     : j \in joined}

(* ORDER BY score DESC: every order of the rows that has no row before a   *)
(* row of greater score (rows of equal score come in any order).           *)
RECURSIVE Ordered(_)
Ordered(rows) ==
  IF rows = {} THEN {<<>>}
  ELSE UNION {{<<r>> \o q : q \in Ordered(rows \ {r})}
                : r \in {x \in rows : \A y \in rows : ~Less(x.score, y.score)}}

Limit(q, limit) == SubSeq(q, 1, Least(limit, Len(q)))

Ranked(rows, limit) == {Limit(q, limit) : q \in Ordered(rows)}

(* part_003 lines 23-62: the lists the query can return; sim gives the     *)
(* cosine similarity of the query to each chunk.                           *)
rawVectorSearch(db, limit, sim, threshold) ==
  Ranked({r \in Grouped(Joined(db), "vector", sim) :
            threshold = NULL \/ Less(TheVal(threshold), r.score)}, limit)

(* part_003 lines 63-96: bm gives the negated BM25 distance of the query   *)
(* text to each chunk, positive where the text matches.                    *)
rawBm25Search(db, bm, limit) ==
  Ranked({r \in Grouped(Joined(db), "bm25", bm) : Less(Num(0), r.score)}, limit)

(* Map.set: a key keeps the place of its first insertion. *)
MapSet(map, entry) ==
  IF \E j \in DOMAIN map : map[j].id = entry.id
    THEN [j \in DOMAIN map |-> IF map[j].id = entry.id THEN entry ELSE map[j]]
    ELSE Append(map, entry)

(* part_003 lines 115-116 *)
RECURSIVE setVectorRanks(_, _, _)
setVectorRanks(scoreMap, vectorResults, index) ==
  IF index > Len(vectorResults) THEN scoreMap
  ELSE setVectorRanks(MapSet(scoreMap, [id |-> vectorResults[index].id, bm25Rank |-> 0,
                                        result |-> vectorResults[index],
                                        vectorRank |-> index]),
                      vectorResults, index + 1)

(* A variant of setBm25Ranks that stores the BM25 row also for a chunk the  *)
(* vector list holds.                                                      *)
RECURSIVE setBm25RanksAndRows(_, _, _)
setBm25RanksAndRows(scoreMap, bm25Results, index) ==
  IF index > Len(bm25Results) THEN scoreMap
  ELSE LET result == bm25Results[index]
           next == IF \E j \in DOMAIN scoreMap : scoreMap[j].id = result.id
                     THEN [j \in DOMAIN scoreMap |->
                             IF scoreMap[j].id = result.id
                               THEN [scoreMap[j] EXCEPT !.bm25Rank = index,
                                                        !.result = result]
                               ELSE scoreMap[j]]
                     ELSE Append(scoreMap, [id |-> result.id, bm25Rank |-> index,
                                            result |-> result, vectorRank |-> 0])
       IN  setBm25RanksAndRows(next, bm25Results, index + 1)

(* part_003 lines 118-122 *)
RECURSIVE setBm25Ranks(_, _, _)
setBm25Ranks(scoreMap, bm25Results, index) ==
  IF index > Len(bm25Results) THEN scoreMap
  ELSE LET result == bm25Results[index]
           next == IF \E j \in DOMAIN scoreMap : scoreMap[j].id = result.id
                     THEN [j \in DOMAIN scoreMap |->
                             IF scoreMap[j].id = result.id
                               THEN [scoreMap[j] EXCEPT !.bm25Rank = index]
                               ELSE scoreMap[j]]
                     ELSE Append(scoreMap, [id |-> result.id, bm25Rank |-> index,
                                            result |-> result, vectorRank |-> 0])
       IN  setBm25Ranks(next, bm25Results, index + 1)

(* A variant of rrfScoreOf that leaves the weights out. *)
rrfScoreUnweighted(entry, vectorWeight, bm25Weight, rrfK) ==
  Plus(IF entry.vectorRank > 0 THEN Over(Num(1), rrfK + entry.vectorRank) ELSE Num(0),
       IF entry.bm25Rank > 0 THEN Over(Num(1), rrfK + entry.bm25Rank) ELSE Num(0))

(* part_003 lines 126-128 *)
rrfScoreOf(entry, vectorWeight, bm25Weight, rrfK) ==
  Plus(IF entry.vectorRank > 0 THEN Over(vectorWeight, rrfK + entry.vectorRank) ELSE Num(0),
       IF entry.bm25Rank > 0 THEN Over(bm25Weight, rrfK + entry.bm25Rank) ELSE Num(0))

(* Array.prototype.sort with (a, b) => b.score - a.score: descending and   *)
(* stable.                                                                 *)
InsertByScore(sorted, x) ==
  LET k == Cardinality({j \in DOMAIN sorted : ~Less(sorted[j].score, x.score)})
  IN  SubSeq(sorted, 1, k) \o <<x>> \o SubSeq(sorted, k + 1, Len(sorted))

RECURSIVE sortByScore(_)
sortByScore(results) ==
  IF results = <<>> THEN <<>>
  ELSE InsertByScore(sortByScore(SubSeq(results, 1, Len(results) - 1)),
                     results[Len(results)])

(* part_003 lines 113-139 *)
merge(scoreMap, vectorWeight, bm25Weight, rrfK, limit) ==
  Limit(sortByScore([j \in DOMAIN scoreMap |->
                       [scoreMap[j].result EXCEPT
                          !.score = rrfScoreOf(scoreMap[j], vectorWeight, bm25Weight, rrfK)]]),
        limit)

rawHybridSearch(vectorResults, bm25Results, vectorWeight, bm25Weight, rrfK, limit) ==
  merge(setBm25Ranks(setVectorRanks(<<>>, vectorResults, 1), bm25Results, 1),
        vectorWeight, bm25Weight, rrfK, limit)

(* part_003 lines 11-22 *)
RECURSIVE dedupFrom(_, _, _, _)
dedupFrom(results, seen, unique, limit) ==
  IF results = <<>> THEN unique
  ELSE LET r == Head(results)
       IN  IF r.text \in seen THEN dedupFrom(Tail(results), seen, unique, limit)
           ELSE IF Len(unique) + 1 >= limit THEN Append(unique, r)
           ELSE dedupFrom(Tail(results), seen \cup {r.text}, Append(unique, r), limit)

(* A variant of dedup that only truncates. *)
dedupNothing(results, limit) == Limit(results, limit)

dedup(results, limit) == dedupFrom(results, {}, <<>>, limit)

(* A variant of relatedBase that follows a relation from its source only. *)
relatedBaseForward(db, initialDocIds, decay) ==
  {[docId |-> r.targetId, depth |-> 1, visited |-> <<r.targetId>>,
    pathWeight |-> Times(Num(r.weight), decay), relType |-> r.relType]
     : r \in {x \in db.documentRelations :
                x.sourceId \in initialDocIds /\ x.targetId \notin initialDocIds}}

(* part_003 lines 155-165: the non-recursive term of the query *)
relatedBase(db, initialDocIds, decay) ==
  {[docId |-> r.targetId, depth |-> 1, visited |-> <<r.targetId>>,
    pathWeight |-> Times(Num(r.weight), decay), relType |-> r.relType]
     : r \in {x \in db.documentRelations :
                x.sourceId \in initialDocIds /\ x.targetId \notin initialDocIds}}
  \cup
  {[docId |-> r.sourceId, depth |-> 1, visited |-> <<r.sourceId>>,
    pathWeight |-> Times(Num(r.weight), decay), relType |-> r.relType]
     : r \in {x \in db.documentRelations :
                x.targetId \in initialDocIds /\ x.sourceId \notin initialDocIds}}

otherEnd(dr, docId) == IF dr.sourceId = docId THEN dr.targetId ELSE dr.sourceId

(* A variant of relatedStep without the visited array. *)
relatedStepRevisiting(db, working, initialDocIds, decay, graphHops) ==
  {[docId |-> otherEnd(x.dr, x.r.docId), depth |-> x.r.depth + 1,
    visited |-> Append(x.r.visited, otherEnd(x.dr, x.r.docId)),
    pathWeight |-> Times(Times(x.r.pathWeight, Num(x.dr.weight)), decay),
    relType |-> IF x.dr.relType # NULL THEN x.dr.relType ELSE x.r.relType]
     : x \in {y \in [r : working, dr : db.documentRelations] :
                /\ (y.dr.sourceId = y.r.docId \/ y.dr.targetId = y.r.docId)
                /\ y.r.depth < graphHops
                /\ otherEnd(y.dr, y.r.docId) \notin initialDocIds}}

(* part_003 lines 167-178: the recursive term, applied to the rows the     *)
(* previous round produced                                                 *)
relatedStep(db, working, initialDocIds, decay, graphHops) ==
  {[docId |-> otherEnd(x.dr, x.r.docId), depth |-> x.r.depth + 1,
    visited |-> Append(x.r.visited, otherEnd(x.dr, x.r.docId)),
    pathWeight |-> Times(Times(x.r.pathWeight, Num(x.dr.weight)), decay),
    relType |-> IF x.dr.relType # NULL THEN x.dr.relType ELSE x.r.relType]
     : x \in {y \in [r : working, dr : db.documentRelations] :
                /\ (y.dr.sourceId = y.r.docId \/ y.dr.targetId = y.r.docId)
                /\ y.r.depth < graphHops
                /\ otherEnd(y.dr, y.r.docId) \notin Range(y.r.visited)
                /\ otherEnd(y.dr, y.r.docId) \notin initialDocIds}}

(* A variant of distinctOnDocId that keeps a row of least path_weight. *)
distinctOnDocIdLeast(related) ==
  LET reached == {r.docId : r \in related}
      shown == {[docId |-> r.docId, pathWeight |-> r.pathWeight, relType |-> r.relType]
                  : r \in related}
  IN  {f \in [reached -> shown] :
         \A d \in reached :
           /\ f[d].docId = d
           /\ \A r \in related : r.docId = d => ~Less(r.pathWeight, f[d].pathWeight)}

(* part_003 lines 180-182: SELECT DISTINCT ON (doc_id) ... ORDER BY doc_id, *)
(* path_weight DESC keeps, for each doc_id, one of its rows of greatest     *)
(* path_weight; the results are the maps doc_id -> kept row.                *)
distinctOnDocId(related) ==
  LET reached == {r.docId : r \in related}
      shown == {[docId |-> r.docId, pathWeight |-> r.pathWeight, relType |-> r.relType]
                  : r \in related}
  IN  {f \in [reached -> shown] :
         \A d \in reached :
           /\ f[d].docId = d
           /\ \A r \in related : r.docId = d => ~Less(f[d].pathWeight, r.pathWeight)}

(* LIMIT without ORDER BY: any rows, in any order. *)
RECURSIVE Arranged(_, _)
Arranged(rows, limit) ==
  IF limit <= 0 \/ rows = {} THEN {<<>>}
  ELSE UNION {{<<r>> \o q : q \in Arranged(rows \ {r}, limit - 1)} : r \in rows}

(* part_003 lines 202-231 *)
graphRows(chunkRows, docWeights, existingChunkIds) ==
  LET kept == SelectSeq(chunkRows, LAMBDA j : j.chunk.id \notin existingChunkIds)
  IN  [k \in DOMAIN kept |->
         [communityId |-> kept[k].doc.communityId,
          documentId |-> kept[k].cs.documentId,
          id |-> kept[k].chunk.id, mode |-> "graph",
          relationType |-> docWeights[kept[k].cs.documentId].relType,
          score |-> docWeights[kept[k].cs.documentId].pathWeight,
          text |-> kept[k].chunk.text, title |-> kept[k].doc.title]]

(* part_003 lines 255-263 *)
communityRows(db, topCommunityId, sim, limit) ==
  Ranked(Grouped({j \in Joined(db) :
                    j.doc.communityId = Some(topCommunityId) /\ ~isSummary(j.doc)},
                 "community", sim),
         limit)

(* A variant of communityResultsOf that also keeps chunks the results hold. *)
RECURSIVE communityResultsOfAll(_, _, _)
communityResultsOfAll(rows, existingChunkIds, seen) ==
  IF rows = <<>> THEN <<>>
  ELSE IF Head(rows).id \in seen
    THEN communityResultsOfAll(Tail(rows), existingChunkIds, seen)
    ELSE <<Head(rows)>> \o communityResultsOfAll(Tail(rows), existingChunkIds,
                                                seen \cup {Head(rows).id})

(* part_003 lines 264-281 *)
RECURSIVE communityResultsOf(_, _, _)
communityResultsOf(rows, existingChunkIds, seen) ==
  IF rows = <<>> THEN <<>>
  ELSE IF Head(rows).id \in existingChunkIds \cup seen
    THEN communityResultsOf(Tail(rows), existingChunkIds, seen)
    ELSE <<Head(rows)>> \o communityResultsOf(Tail(rows), existingChunkIds,
                                             seen \cup {Head(rows).id})

(* score = weight / (rrfK + i + 1) for the row at index i, from 0 *)
rankScores(rows, weight, rrfK) ==
  [j \in DOMAIN rows |-> [rows[j] EXCEPT !.score = Over(weight, rrfK + j)]]

(* part_003 lines 310-314 and 333-364: the defaults of the options *)
Default(option, value) == IF option = NULL THEN value ELSE TheVal(option)

(* part_003 lines 350-352 *)
docIdSetOf(results) == {results[j].documentId : j \in DOMAIN results}

(* part_003 lines 377-387: the community of most results, the one met      *)
(* first among equals; -1 when no result has a community                   *)
topCommunityIdOf(results) ==
  LET with == {j \in DOMAIN results : results[j].communityId # NULL}
      cids == {TheVal(results[j].communityId) : j \in with}
      cnt(c) == Cardinality({j \in with : results[j].communityId = Some(c)})
      first(c) == CHOOSE j \in with :
                    /\ results[j].communityId = Some(c)
                    /\ \A k \in with : results[k].communityId = Some(c) => j <= k
  IN  IF cids = {} THEN -1
      ELSE CHOOSE c \in cids :
             \A o \in cids : cnt(c) > cnt(o) \/ (cnt(c) = cnt(o) /\ first(c) <= first(o))

NewSearch(config, sim, bm) ==
  [pc |-> IF Default(config.mode, "hybrid") # "bm25" THEN "embed" ELSE "primary",
   config |-> config, sim |-> sim, bm |-> bm,
   mode |-> Default(config.mode, "hybrid"),
   limit |-> Default(config.limit, DefaultLimit),
   rrfK |-> Default(config.rrfK, DefaultRrfK),
   queryEmbedding |-> FALSE,
   vectorResults |-> <<>>, bm25Results |-> <<>>, raw |-> <<>>, issued |-> 0,
   results |-> <<>>, allChunkIds |-> {}, expanded |-> FALSE,
   initialDocIds |-> {}, working |-> {}, related |-> {}, docWeights |-> <<>>,
   collected |-> <<>>, topCommunityId |-> -1]

(* part_003 line 416 *)
finish(s) ==
  [s EXCEPT !.results = IF s.expanded THEN sortByScore(s.results) ELSE s.results,
            !.pc = "done"]

(* part_003 line 376 *)
toBoost(s) ==
  IF s.config.communityBoost # NULL /\ Less(Num(0), TheVal(s.config.communityBoost))
    THEN [s EXCEPT !.collected = s.results, !.topCommunityId = topCommunityIdOf(s.results),
                   !.pc = "boost"]
    ELSE finish(s)

(* part_003 lines 344-350 *)
withResults(s, results) ==
  LET next == [s EXCEPT !.results = results,
                        !.allChunkIds = {results[j].id : j \in DOMAIN results}]
  IN  IF s.config.graphHops # NULL /\ TheVal(s.config.graphHops) > 0
        THEN [next EXCEPT !.pc = "graph"]
        ELSE toBoost(next)

afterPrimary(s, raw) == withResults([s EXCEPT !.raw = raw], dedup(raw, s.limit))

(* part_003 lines 316-322 *)
embedQuery(db, s) ==
  IF s.config.embeds THEN {[s EXCEPT !.queryEmbedding = TRUE, !.pc = "primary"]}
  ELSE {[s EXCEPT !.pc = "done"]}

(* A variant of hybridFetchLimit that fetches the limit it is given. *)
hybridFetchLimitGiven(limit) == limit

(* part_003 line 108: rawHybridSearch fetches three times its own limit *)
hybridFetchLimit(limit) == limit * 3

(* part_003 lines 324-342 *)
primarySearch(db, s) ==
  LET fetchLimit == s.limit * 3
  IN  CASE s.mode = "vector" ->
             {afterPrimary([s EXCEPT !.vectorResults = v, !.issued = fetchLimit], v)
                : v \in rawVectorSearch(db, fetchLimit, s.sim, s.config.threshold)}
        [] s.mode = "bm25" ->
             {afterPrimary([s EXCEPT !.bm25Results = b, !.issued = fetchLimit], b)
                : b \in rawBm25Search(db, s.bm, fetchLimit)}
        [] OTHER ->
             {afterPrimary([s EXCEPT !.vectorResults = x[1], !.bm25Results = x[2],
                                     !.issued = hybridFetchLimit(fetchLimit)],
                           rawHybridSearch(x[1], x[2],
                                           Default(s.config.vectorWeight, Num(1)),
                                           Default(s.config.bm25Weight, Num(1)),
                                           s.rrfK, fetchLimit))
                : x \in rawVectorSearch(db, hybridFetchLimit(fetchLimit), s.sim,
                                        s.config.threshold)
                          \X rawBm25Search(db, s.bm, hybridFetchLimit(fetchLimit))}

(* part_003 lines 150-165 and 351-361 *)
graphStart(db, s) ==
  LET initialDocIds == docIdSetOf(s.results)
      base == relatedBase(db, initialDocIds, Default(s.config.graphDecay, Num(1)))
  IN  IF initialDocIds = {} THEN {toBoost([s EXCEPT !.expanded = TRUE])}
      ELSE {[s EXCEPT !.initialDocIds = initialDocIds, !.working = base,
                      !.related = base, !.pc = "related"]}

(* part_003 lines 166-200: one round of the recursive term; the query      *)
(* returns when a round produces no row                                    *)
graphRound(s, next) ==
  IF next # {}
    THEN {[s EXCEPT !.working = next, !.related = @ \cup next]}
    ELSE IF s.related = {} THEN {toBoost([s EXCEPT !.working = {}, !.expanded = TRUE])}
    ELSE {[s EXCEPT !.working = {}, !.docWeights = f, !.pc = "graphChunks"]
            : f \in distinctOnDocId(s.related)}

graphRelated(db, s) ==
  graphRound(s, relatedStep(db, s.working, s.initialDocIds,
                            Default(s.config.graphDecay, Num(1)),
                            TheVal(s.config.graphHops)))

(* part_003 lines 363-373 *)
withGraphResults(s, graphResults) ==
  toBoost([s EXCEPT !.results = @ \o graphResults,
                    !.allChunkIds = @ \cup {graphResults[j].id : j \in DOMAIN graphResults},
                    !.expanded = TRUE])

(* part_003 lines 202-231 and 363-373 *)
graphChunks(db, s) ==
  {withGraphResults(s, rankScores(sortByScore(graphRows(chunkRows, s.docWeights,
                                                        s.allChunkIds)),
                                  Default(s.config.graphWeight, Num(1)), s.rrfK))
     : chunkRows \in Arranged({j \in Joined(db) : j.cs.documentId \in DOMAIN s.docWeights},
                              Default(s.config.graphChunkLimit,
                                      DEFAULT_GRAPH_CHUNK_LIMIT))}

(* part_003 lines 404-411 *)
withCommunityResults(s, communityResults) ==
  finish([s EXCEPT !.results = @ \o rankScores(communityResults,
                                               TheVal(s.config.communityBoost), s.rrfK),
                   !.queryEmbedding = TRUE, !.expanded = TRUE])

(* part_003 lines 389-413 *)
communityBoost(db, s) ==
  IF s.topCommunityId >= 0 /\ (s.queryEmbedding \/ s.config.embeds)
    THEN {withCommunityResults(s, communityResultsOf(rows, s.allChunkIds, {}))
            : rows \in communityRows(db, s.topCommunityId, s.sim,
                                     Default(s.config.graphChunkLimit,
                                             DEFAULT_GRAPH_CHUNK_LIMIT))}
    ELSE {finish(s)}

(* One await of search: the states it can lead to. *)
SearchSteps(db, s) ==
  CASE s.pc = "embed"       -> embedQuery(db, s)
    [] s.pc = "primary"     -> primarySearch(db, s)
    [] s.pc = "graph"       -> graphStart(db, s)
    [] s.pc = "related"     -> graphRelated(db, s)
    [] s.pc = "graphChunks" -> graphChunks(db, s)
    [] s.pc = "boost"       -> communityBoost(db, s)

(* ------------------------------ inputs -------------------------------- *)
Doc(title, content) == [title |-> title, content |-> content, metadata |-> NoMeta]
Str(title) == [kind |-> "string", title |-> title, type |-> NULL, weight |-> NULL]
Obj(title, type, weight) == [kind |-> "object", title |-> title, type |-> type,
                             weight |-> weight]
Rel(source, targets) == [source |-> source, targets |-> targets]
Cfg(relations, backupPath, transformChunk) ==
  [relations |-> relations, backupPath |-> backupPath, transformChunk |-> transformChunk]

D1 == Doc(<<"a">>, <<"P", "Q">>)
D2 == Doc(<<"b">>, <<"P">>)
D3 == Doc(<<"a">>, <<"c">>)
D4 == Doc(<<"c">>, <<>>)
D5 == Doc(<<"a", "c">>, <<>>)

IngestCalls ==
  { [docs |-> <<D3>>, cfg |-> Cfg(NULL, FALSE, FALSE)],
    [docs |-> <<D1, D2>>, cfg |-> Cfg(Some(<<Rel(<<"a">>, <<Str(<<"b">>)>>)>>), FALSE, FALSE)],
    [docs |-> <<D2>>,
     cfg |-> Cfg(Some(<<Rel(<<"b">>, <<Obj(<<"a">>, Some("x"), Some(2))>>)>>), TRUE, FALSE)],
    [docs |-> <<D1, D1>>, cfg |-> Cfg(NULL, TRUE, TRUE)],
    [docs |-> <<D1>>,
     cfg |-> Cfg(Some(<<Rel(<<"a">>, <<Str(<<"a">>), Str(<<"c">>)>>)>>), FALSE, FALSE)],
    [docs |-> <<D4>>, cfg |-> Cfg(Some(<<>>), FALSE, FALSE)],
    [docs |-> <<D1, D2>>,
     cfg |-> Cfg(Some(<<Rel(<<"b">>, <<Str(<<"a">>)>>),
                        Rel(<<"c", "c">>, <<Str(<<"b", "b">>)>>)>>), FALSE, FALSE)],
    [docs |-> <<D5, D3>>, cfg |-> Cfg(NULL, FALSE, FALSE)],
    [docs |-> <<>>, cfg |-> Cfg(NULL, FALSE, FALSE)] }

Vec(dim, text) == [dim |-> dim, of |-> text]
BChunk(text, dim, startIndex, tokenCount) ==
  [text |-> text, embedding |-> Some(Vec(dim, text)), startIndex |-> startIndex,
   endIndex |-> Some(MinChunkLen), tokenCount |-> tokenCount]
Line(title, content, contentHash, communityId, cs, relations) ==
  [json |-> TRUE, title |-> title, content |-> content, contentHash |-> contentHash,
   metadata |-> NoMeta, communityId |-> communityId, chunks |-> cs, relations |-> relations]
Garbage ==
  [json |-> FALSE, title |-> NULL, content |-> NULL, contentHash |-> NULL,
   metadata |-> NoMeta, communityId |-> NULL, chunks |-> NULL, relations |-> <<>>]

HashOf(title, content) == Some(computeHash(title \o content))
GoodChunk(text) == BChunk(text, Dimension, Some(0), Some(MinChunkLen))

LineB == Line(Some(<<"b">>), Some(<<"P">>), HashOf(<<"b">>, <<"P">>), NULL,
              Some(<<GoodChunk(<<"P">>)>>), <<Str(<<"c">>)>>)
LineC == Line(Some(<<"c">>), Some(<<"Q">>), HashOf(<<"b">>, <<"P">>), NULL,
              Some(<<GoodChunk(<<"Q">>)>>), <<>>)
LineNoChunks == Line(Some(<<"c">>), Some(<<"Q">>), HashOf(<<"c">>, <<"Q">>), NULL,
                     Some(<<>>), <<>>)
LineSmallDim == Line(Some(<<"c">>), Some(<<"Q">>), HashOf(<<"c">>, <<"Q">>), NULL,
                     Some(<<BChunk(<<"Q">>, 16, Some(0), Some(MinChunkLen))>>), <<>>)
LineBadDoc == Line(Some(<<"c">>), Some(<<"Q">>), HashOf(<<"c">>, <<"Q">>),
                   Some([int |-> FALSE, v |-> 0]), Some(<<GoodChunk(<<"Q">>)>>), <<>>)
LineBadChunk == Line(Some(<<"c">>), Some(<<"Q", "P">>), HashOf(<<"c">>, <<"Q", "P">>), NULL,
                     Some(<<GoodChunk(<<"Q">>),
                            BChunk(<<"P">>, Dimension, Some(MinChunkLen), NULL)>>), <<>>)
LineBadSource == Line(Some(<<"c">>), Some(<<"Q">>), HashOf(<<"c">>, <<"Q">>), NULL,
                      Some(<<BChunk(<<"Q">>, Dimension, NULL, Some(MinChunkLen))>>), <<>>)
LineNoTitle == Line(NULL, Some(<<"Q">>), HashOf(<<>>, <<"Q">>), NULL,
                    Some(<<GoodChunk(<<"Q">>)>>), <<>>)

(* Two lines with one contentHash and two titles: title and content are   *)
(* concatenated without a separator.                                       *)
LineA1 == Line(Some(<<"a">>), Some(<<"b", "P">>), HashOf(<<"a">>, <<"b", "P">>), NULL,
               Some(<<BChunk(<<"P">>, Dimension, Some(1), Some(MinChunkLen))>>),
               <<Str(<<"a", "b">>)>>)
LineA2 == Line(Some(<<"a", "b">>), Some(<<"P">>), HashOf(<<"a", "b">>, <<"P">>), NULL,
               Some(<<GoodChunk(<<"P">>)>>), <<>>)

CraftedFiles ==
  { <<LineA1, LineA2>>, <<LineC>>, <<LineB, Garbage>>, <<LineB, LineSmallDim>>, <<LineNoTitle, LineB>>,
    <<LineB, LineNoChunks>>, <<LineSmallDim>>,
    <<LineB, LineBadDoc>>, <<LineB, LineBadChunk>>, <<LineB, LineBadSource>> }

(* importBackup's dimension argument: the handle's dimension, or none when *)
(* the caller passed an embed function (index.ts line 286).                *)
ImportCalls ==
  {[lines |-> f, dimension |-> Some(Dimension)] : f \in CraftedFiles}
    \cup {[lines |-> <<LineSmallDim>>, dimension |-> NULL]}

(* ------------------------------ actions ------------------------------- *)
DB == [documents |-> documents, chunks |-> chunks, chunkSources |-> chunkSources,
       documentRelations |-> documentRelations, seqs |-> seqs, file |-> file]

SetDB(db) ==
  /\ documents' = db.documents
  /\ chunks' = db.chunks
  /\ chunkSources' = db.chunkSources
  /\ documentRelations' = db.documentRelations
  /\ seqs' = db.seqs
  /\ file' = db.file

Tag(o, ids, by, transformChunk) ==
  [id \in DOMAIN o \cup Range(ids) |->
     IF id \in DOMAIN o THEN o[id] ELSE [by |-> by, transformChunk |-> transformChunk]]

Procs == {1, 2}
Idle == [pc |-> "idle"]

(* index.ts lines 184-185: the fields db and _client of a new Rag, with    *)
(* the connections postgres() has made for it and the ones still open.     *)
NewHandle == [db |-> NULL, client |-> NULL, made |-> 0, open |-> {}]

EmptyDB ==
  [documents |-> {}, chunks |-> {}, chunkSources |-> {}, documentRelations |-> {},
   seqs |-> [doc |-> 1, chunk |-> 1, source |-> 1, rel |-> 1], file |-> <<>>]

Init ==
  /\ documents = EmptyDB.documents
  /\ chunks = EmptyDB.chunks
  /\ chunkSources = EmptyDB.chunkSources
  /\ documentRelations = EmptyDB.documentRelations
  /\ seqs = EmptyDB.seqs
  /\ file = EmptyDB.file
  /\ last = [op |-> "init"]
  /\ ops = 0
  /\ origin = <<>>
  /\ running = [p \in Procs |-> Idle]
  /\ handle = NewHandle

Ingested(call, r) ==
  /\ SetDB(r.db)
  /\ last' = [op |-> "ingest", call |-> call, docIds |-> r.l.docIds,
              failed |-> r.l.pc = "failed", result |-> IngestResult(r.l)]
  /\ origin' = Tag(origin, r.l.docIds, "ingest", call.cfg.transformChunk)
  /\ ops' = ops + 1
  /\ UNCHANGED <<running, handle>>

Ingest(call) == ops < MaxOps /\ Ingested(call, ingest(DB, call.docs, call.cfg))

Detected(r) ==
  /\ SetDB(r.db)
  /\ last' = [op |-> "detect", result |-> r.l.communitiesDetected]
  /\ ops' = ops + 1
  /\ UNCHANGED <<origin, running, handle>>

DetectCommunities == ops < MaxOps /\ Detected(detectCommunities(DB))

Exported(r) ==
  /\ SetDB(r.db)
  /\ last' = [op |-> "export", result |-> r.documentsExported]
  /\ ops' = ops + 1
  /\ UNCHANGED <<origin, running, handle>>

ExportBackup == ops < MaxOps /\ Exported(exportBackup(DB))

ValidateBackup ==
  /\ ops < MaxOps
  /\ last' = [op |-> "validate", result |-> validateBackupLines(file)]
  /\ ops' = ops + 1
  /\ UNCHANGED <<documents, chunks, chunkSources, documentRelations, seqs, file,
                 origin, running, handle>>

NewDocIds(db) == Ascending({d.id : d \in db.documents \ documents})

Imported(lines, dimension, r) ==
  /\ SetDB(r.db)
  /\ last' = [op |-> "import", lines |-> lines, dimension |-> dimension,
              error |-> r.error, failedAt |-> r.failedAt,
              result |-> [chunksInserted |-> r.chunksInserted,
                          documentsImported |-> r.documentsImported,
                          duplicatesSkipped |-> r.duplicatesSkipped,
                          warnings |-> r.warnings]]
  /\ origin' = Tag(origin, NewDocIds(r.db), "import", FALSE)
  /\ ops' = ops + 1
  /\ UNCHANGED <<running, handle>>

Import(lines, dimension) ==
  ops < MaxOps /\ Imported(lines, dimension, importBackup(DB, lines, dimension))

ImportBackup == Import(file, Some(Dimension))

ImportCrafted == \E c \in ImportCalls : Import(c.lines, c.dimension)

Summarized(r, minSize) ==
  /\ SetDB(r.db)
  /\ last' = [op |-> "summaries", call |-> [minSize |-> minSize],
              result |-> [communitiesProcessed |-> r.communitiesProcessed,
                          summariesGenerated |-> r.summariesGenerated]]
  /\ origin' = Tag([id \in {d.id : d \in r.db.documents} \cap DOMAIN origin |-> origin[id]],
                   r.docIds, "ingest", FALSE)
  /\ ops' = ops + 1
  /\ UNCHANGED <<running, handle>>

BuildCommunitySummaries(minSize) ==
  ops < MaxOps /\ Summarized(buildCommunitySummaries(DB, minSize), minSize)

Next ==
  \/ \E call \in IngestCalls : Ingest(call)
  \/ DetectCommunities
  \/ ExportBackup
  \/ ValidateBackup
  \/ ImportBackup
  \/ ImportCrafted
  \/ \E minSize \in 1..2 : BuildCommunitySummaries(minSize)

Spec == Init /\ [][Next]_vars

(* States reachable by ingest calls alone. *)
NextIngest == \E call \in IngestCalls : Ingest(call)

SpecIngest == Init /\ [][NextIngest]_vars

(* ------------------- ingest calls whose embed can raise ---------------- *)
IngestEmbedRaises(call) ==
  /\ ops < MaxOps
  /\ LET r == ingestEmbedRaising(DB, call.docs, call.cfg)
     IN  r.l.pc = "failed" /\ Ingested(call, r)

NextRetry ==
  \/ \E call \in IngestCalls : Ingest(call)
  \/ \E call \in IngestCalls : IngestEmbedRaises(call)

SpecRetry == Init /\ [][NextRetry]_vars

(* ------------------- ingest calls running in parallel ----------------- *)
(* Each of the two callers runs one ingest call at a time, one statement   *)
(* (one await) per step; import_backup runs between any two statements.    *)
ParCalls ==
  { [docs |-> <<D1>>, cfg |-> Cfg(NULL, FALSE, FALSE)],
    [docs |-> <<D4>>,
     cfg |-> Cfg(Some(<<Rel(<<"c">>, <<Str(<<"d">>)>>)>>), FALSE, FALSE)],
    [docs |-> <<D2>>,
     cfg |-> Cfg(Some(<<Rel(<<"b">>, <<Str(<<"a">>)>>)>>), FALSE, FALSE)],
    [docs |-> <<D1, D2>>, cfg |-> Cfg(NULL, FALSE, FALSE)],
    [docs |-> <<D1, D2>>,
     cfg |-> Cfg(Some(<<Rel(<<"a">>, <<Str(<<"b">>)>>),
                        Rel(<<"b">>, <<Str(<<"a">>)>>)>>), FALSE, FALSE)] }

ParFiles == { <<LineB, LineNoChunks>> }

Start(p, call) ==
  /\ ops < MaxCalls
  /\ running[p] = Idle
  /\ running' = [running EXCEPT ![p] = NewIngest(call.docs, call.cfg)]
  /\ ops' = ops + 1
  /\ UNCHANGED <<documents, chunks, chunkSources, documentRelations, seqs, file,
                 last, origin, handle>>

Stepped(p, st) ==
  /\ SetDB(st.db)
  /\ running' = [running EXCEPT ![p] = st.l]
  /\ UNCHANGED <<last, ops, origin, handle>>

Step(p) ==
  /\ running[p].pc \notin {"idle", "done", "failed"}
  /\ Stepped(p, IngestStep(DB, running[p]))

Return(p) ==
  /\ running[p].pc \in {"done", "failed"}
  /\ last' = [op |-> "ingest",
              call |-> [docs |-> running[p].docs, cfg |-> running[p].cfg],
              docIds |-> running[p].docIds,
              failed |-> running[p].pc = "failed",
              result |-> IngestResult(running[p])]
  /\ origin' = Tag(origin, running[p].docIds,
                   IF running[p].pc = "failed" THEN "failed" ELSE "ingest",
                   running[p].cfg.transformChunk)
  /\ running' = [running EXCEPT ![p] = Idle]
  /\ UNCHANGED <<documents, chunks, chunkSources, documentRelations, seqs, file, ops, handle>>

ParImport ==
  /\ ops < MaxCalls
  /\ \E lines \in ParFiles : Imported(lines, Some(Dimension),
                                      importBackup(DB, lines, Some(Dimension)))

NextPar ==
  \/ \E p \in Procs : \E call \in ParCalls : Start(p, call)
  \/ \E p \in Procs : Step(p)
  \/ \E p \in Procs : Return(p)
  \/ ParImport

SpecPar == Init /\ [][NextPar]_vars

(* --------------- detectCommunities on arbitrary relation graphs -------- *)
DetectDoc(id) ==
  [id |-> id, title |-> <<ToString(id)>>, content |-> <<>>,
   contentHash |-> computeHash(<<ToString(id)>>), metadata |-> NoMeta,
   communityId |-> NULL]

DistinctSeqs(S, n) ==
  UNION {{q \in [1..k -> S] : \A i, j \in 1..k : q[i] = q[j] => i = j} : k \in 0..n}

InitDetect ==
  /\ \E ids \in SUBSET (1..MaxDetectDocs) :
       /\ documents = {DetectDoc(id) : id \in ids}
       /\ \E q \in DistinctSeqs(ids \X ids, MaxDetectRels) :
            documentRelations =
              {[id |-> j, sourceId |-> q[j][1], targetId |-> q[j][2],
                relType |-> NULL, weight |-> 1] : j \in DOMAIN q}
  /\ chunks = {}
  /\ chunkSources = {}
  /\ seqs = EmptyDB.seqs
  /\ file = <<>>
  /\ last = [op |-> "init"]
  /\ ops = 0
  /\ origin = <<>>
  /\ running = [p \in Procs |-> Idle]
  /\ handle = NewHandle

NextDetect == last.op = "init" /\ DetectCommunities

SpecDetect == InitDetect /\ [][NextDetect]_vars

(* ------------------------------- search -------------------------------- *)
(* Databases to search, each written by ingest, build_community_summaries  *)
(* and detect_communities calls on an empty database.                      *)
DC == Doc(<<"c">>, <<"S">>)
DD == Doc(<<"a", "b">>, <<"R">>)

(* a -> b -> c -> a; a and b share the chunk P *)
Cycle ==
  ingest(EmptyDB, <<D1, D2, DC>>,
         Cfg(Some(<<Rel(<<"a">>, <<Str(<<"b">>)>>), Rel(<<"b">>, <<Str(<<"c">>)>>),
                    Rel(<<"c">>, <<Str(<<"a">>)>>)>>), FALSE, FALSE)).db

(* a -> b of weight 2 and type x, b -> a, b -> c; ab on its own *)
Chain ==
  ingest(EmptyDB, <<D1, D2, DC, DD>>,
         Cfg(Some(<<Rel(<<"a">>, <<Obj(<<"b">>, Some("x"), Some(2))>>),
                    Rel(<<"b">>, <<Str(<<"a">>), Str(<<"c">>)>>)>>), FALSE, FALSE)).db

(* the communities {a, b} and {c}, the summary document of {a, b}, which   *)
(* shares its chunk with c, and is a community of its own                  *)
Summarised ==
  detectCommunities(
    buildCommunitySummaries(
      ingest(ingest(EmptyDB, <<D1, D2>>,
                    Cfg(Some(<<Rel(<<"a">>, <<Str(<<"b">>)>>)>>), FALSE, FALSE)).db,
             <<DC>>, Cfg(Some(<<>>), FALSE, FALSE)).db,
      2).db).db

SearchDBs == {Cycle, Chain, Summarised}

SearchConfig(mode, limit, graphHops, boost, tuned) ==
  [mode |-> mode, limit |-> limit, graphHops |-> graphHops,
   communityBoost |-> boost, embeds |-> TRUE,
   rrfK |-> IF tuned THEN Some(1) ELSE NULL,
   threshold |-> IF tuned THEN Some(<<1, 2>>) ELSE NULL,
   vectorWeight |-> IF tuned THEN Some(<<3, 2>>) ELSE NULL,
   bm25Weight |-> IF tuned THEN Some(<<4, 5>>) ELSE NULL,
   graphWeight |-> IF tuned THEN Some(<<2, 1>>) ELSE NULL,
   graphDecay |-> IF tuned THEN Some(<<1, 2>>) ELSE NULL,
   graphChunkLimit |-> NULL]

SearchConfigs ==
  {SearchConfig(mode, limit, graphHops, boost, tuned) :
     mode \in {NULL, Some("vector"), Some("bm25")},
     limit \in {Some(1), Some(2)},
     graphHops \in {NULL} \cup {Some(h) : h \in 1..MaxGraphHops},
     boost \in {NULL, Some(<<1, 2>>)},
     tuned \in BOOLEAN}
  \cup {[SearchConfig(Some("vector"), NULL, Some(0), NULL, FALSE) EXCEPT !.embeds = e]
          : e \in BOOLEAN}
  \cup {[SearchConfig(Some("bm25"), Some(2), Some(2), Some(<<1, 2>>), FALSE)
           EXCEPT !.graphChunkLimit = Some(1), !.embeds = e] : e \in BOOLEAN}

(* The cosine similarity of a query to each chunk: falling with the chunk  *)
(* id, or rising with it.                                                  *)
Similarities(ids) ==
  { [id \in ids |-> <<10 - 2 * id, 10>>],
    [id \in ids |-> <<2 * id, 10>>] }

(* The BM25 score of a query text for each chunk, 0 where the text does    *)
(* not match: every chunk matches, or the chunks from the second on; the   *)
(* score rises with the chunk id.                                          *)
Bm25Scores(ids) ==
  { [id \in ids |-> Num(id)],
    [id \in ids |-> IF id >= 2 THEN Num(id) ELSE Num(0)] }

Uses(config, sub) ==
  CASE sub = "vector" -> config.mode # Some("bm25") \/ config.communityBoost # NULL
    [] sub = "bm25"   -> config.mode # Some("vector")

InitSearch ==
  /\ \E db \in SearchDBs :
       /\ documents = db.documents
       /\ chunks = db.chunks
       /\ chunkSources = db.chunkSources
       /\ documentRelations = db.documentRelations
       /\ seqs = db.seqs
       /\ file = db.file
  /\ last = [op |-> "init"]
  /\ ops = 0
  /\ origin = <<>>
  /\ running = [p \in Procs |-> Idle]
  /\ handle = NewHandle

StartSearch ==
  /\ last.op = "init"
  /\ running[1] = Idle
  /\ \E config \in SearchConfigs :
       \E sim \in IF Uses(config, "vector")
                    THEN Similarities({c.id : c \in chunks}) ELSE {<<>>} :
         \E bm \in IF Uses(config, "bm25")
                     THEN Bm25Scores({c.id : c \in chunks}) ELSE {<<>>} :
           running' = [running EXCEPT ![1] = NewSearch(config, sim, bm)]
  /\ UNCHANGED <<documents, chunks, chunkSources, documentRelations, seqs, file,
                 last, ops, origin, handle>>

SearchStep ==
  /\ running[1].pc \notin {"idle", "done"}
  /\ \E next \in SearchSteps(DB, running[1]) :
       running' = [running EXCEPT ![1] = next]
  /\ UNCHANGED <<documents, chunks, chunkSources, documentRelations, seqs, file,
                 last, ops, origin, handle>>

SearchReturn ==
  /\ running[1].pc = "done"
  /\ last' = [op |-> "search", call |-> running[1]]
  /\ running' = [running EXCEPT ![1] = Idle]
  /\ UNCHANGED <<documents, chunks, chunkSources, documentRelations, seqs, file,
                 ops, origin, handle>>

NextSearch == StartSearch \/ SearchStep \/ SearchReturn

SpecSearch == InitSearch /\ [][NextSearch]_vars

(* ------------------------------ claims -------------------------------- *)
HashesOf(docs) == {computeHash(docs[j].title \o docs[j].content) : j \in DOMAIN docs}

AllStored(docs) == HashesOf(docs) \subseteq {d.contentHash : d \in documents}

WithoutCommunity(docs) == {[d EXCEPT !.communityId = NULL] : d \in docs}

RepeatCounters(r, docs) ==
  /\ r.documentsInserted = 0
  /\ r.chunksInserted = 0
  /\ r.duplicatesSkipped = Len(docs)

(* C1 (as amended): an ingest call whose documents are all stored already  *)
(* (in particular a second ingest(docs, cfg) after a completed first one)  *)
(* returns documents_inserted = 0, chunks_inserted = 0 and                 *)
(* duplicates_skipped = len(docs), leaves chunks and chunk_sources         *)
(* unchanged and leaves every documents row unchanged except possibly its  *)
(* community_id.                                                           *)
C1_RepeatIngest ==
  [][(last'.op = "ingest" /\ AllStored(last'.call.docs))
       => /\ ~last'.failed
          /\ RepeatCounters(last'.result, last'.call.docs)
          /\ chunks' = chunks
          /\ chunkSources' = chunkSources
          /\ WithoutCommunity(documents') = WithoutCommunity(documents)]_vars

(* C1 witness: the list <<D1, D1>> was ingested when D1 was stored: both   *)
(* entries were skipped.                                                   *)
C1_Witness ==
  /\ last.op = "ingest"
  /\ last.call.docs = <<D1, D1>>
  /\ last.result.duplicatesSkipped = 2
  /\ last.result.documentsInserted = 0

(* C1 as stated: the second of two consecutive identical ingest calls also *)
(* leaves the documents table unchanged.                                   *)
C1_AsStated ==
  [][(last.op = "ingest" /\ ~last.failed /\ last'.op = "ingest" /\ last'.call = last.call)
       => /\ RepeatCounters(last'.result, last'.call.docs)
          /\ documents' = documents
          /\ chunks' = chunks
          /\ chunkSources' = chunkSources]_vars

(* What a round trip is compared by: documents by content hash and title,  *)
(* chunk links by document, text and embedding, relations by the content   *)
(* hashes of their ends, type and weight.                                  *)
HashOfDoc(db, id) == (CHOOSE d \in db.documents : d.id = id).contentHash

View(db) ==
  [docs |-> {[contentHash |-> d.contentHash, title |-> d.title] : d \in db.documents},
   links |-> {[doc |-> HashOfDoc(db, cs.documentId),
               text |-> (CHOOSE c \in db.chunks : c.id = cs.chunkId).text,
               embedding |-> (CHOOSE c \in db.chunks : c.id = cs.chunkId).embedding]
                : cs \in db.chunkSources},
   rels |-> {[source |-> HashOfDoc(db, r.sourceId), target |-> HashOfDoc(db, r.targetId),
              relType |-> r.relType, weight |-> r.weight] : r \in db.documentRelations}]

Restored(lines) == importBackup(EmptyDB, lines, Some(Dimension))

SameAsRestored(db, r) == r.error = "none" /\ View(r.db) = View(db)

(* C3 (as stated, for the states whose export passes validation): after    *)
(* ingest calls, export_backup followed by import_backup into an empty     *)
(* database of the same dimension yields the same documents, chunk links   *)
(* and relations.                                                          *)
C3_RoundTrip ==
  validateBackupLines(exportLines(DB)).valid
    => SameAsRestored(DB, Restored(exportLines(DB)))

(* The documents an undirected path of relation rows connects to S. *)
RECURSIVE Reach(_, _)
Reach(S, rels) ==
  LET T == S \cup {r.targetId : r \in {x \in rels : x.sourceId \in S}}
             \cup {r.sourceId : r \in {x \in rels : x.targetId \in S}}
  IN  IF T = S THEN S ELSE Reach(T, rels)

IsComponentPartition(docs, rels) ==
  \A d \in docs :
    /\ d.communityId # NULL
    /\ \A e \in docs : (d.communityId = e.communityId) <=> (e.id \in Reach({d.id}, rels))

(* C4 (as stated): in every state community_id partitions the documents    *)
(* into the connected components of the undirected relation graph, and     *)
(* every document has a community_id.                                      *)
C4_AlwaysPartitioned == IsComponentPartition(documents, documentRelations)

(* C6 (as stated): no document_relations row has source_id = target_id.    *)
C6_NoSelfRelation == \A r \in documentRelations : r.sourceId # r.targetId

(* C7 (as stated): every stored document row has                           *)
(* content_hash = SHA-256(title || content).                               *)
C7_HashOfTitleAndContent ==
  \A d \in documents : d.contentHash = computeHash(d.title \o d.content)

(* C8 (as stated, the part about validity): after ingest calls, the file   *)
(* export_backup writes passes validate_backup with no errors.             *)
C8_ExportValidates ==
  /\ validateBackupLines(exportLines(DB)).valid
  /\ validateBackupLines(exportLines(DB)).errors = {}

InvalidFile(lines) ==
  \/ \E i \in DOMAIN lines : lineErrors(lines[i]) # {}
  \/ Cardinality(UNION {lineDimensions(lines[i]) : i \in DOMAIN lines}) > 1

(* C9: when a line of the backup file has a parse or field error, or the   *)
(* chunks of the file have more than one embedding length, import_backup   *)
(* fails with the validation error and writes nothing: documents, chunks,  *)
(* chunk_sources and document_relations are as before the call.            *)
C9_InvalidFileNoWrite ==
  [][(last'.op = "import" /\ InvalidFile(last'.lines))
       => /\ last'.error = "validation"
          /\ documents' = documents
          /\ chunks' = chunks
          /\ chunkSources' = chunkSources
          /\ documentRelations' = documentRelations]_vars

(* C9 witness: an import was refused although the first line of its file   *)
(* is a valid document, and the database held rows.                        *)
C9_Witness ==
  /\ last.op = "import"
  /\ last.error = "validation"
  /\ lineErrors(last.lines[1]) = {}
  /\ documents # {}

FirstLineOf(lines, hash) ==
  lines[CHOOSE i \in DOMAIN lines :
          /\ lines[i].contentHash = Some(hash)
          /\ \A j \in 1..(i - 1) : lines[j].contentHash # Some(hash)]

CompleteFromLine(d, line, cks, srcs) ==
  /\ Cardinality({cs \in srcs : cs.documentId = d.id}) = Len(TheVal(line.chunks))
  /\ \A c \in Range(TheVal(line.chunks)) :
       \E row \in cks : \E cs \in srcs :
         /\ row.text = c.text
         /\ cs.chunkId = row.id /\ cs.documentId = d.id
         /\ cs.startIndex = TheVal(c.startIndex)

(* C10: when import_backup fails while writing the document of one line,   *)
(* no document row, chunk_sources row or chunk row written for that        *)
(* document persists, and every document imported from an earlier line     *)
(* persists with all the chunk_sources rows of its line.                   *)
C10_DocumentAtomic ==
  [][(last'.op = "import" /\ last'.error = "database")
       => /\ \A d \in documents' \ documents :
               /\ d.contentHash # TheVal(last'.lines[last'.failedAt].contentHash)
               /\ CompleteFromLine(d, FirstLineOf(last'.lines, d.contentHash),
                                   chunks', chunkSources')
          /\ \A cs \in chunkSources' : \E d \in documents' : d.id = cs.documentId
          /\ \A c \in chunks' \ chunks : \E cs \in chunkSources' : cs.chunkId = c.id]_vars

(* C10 witness: an import failed at its second line after the chunk and    *)
(* chunk_sources rows of that line's first chunk had been written, and the *)
(* document of the first line is stored.                                   *)
C10_Witness ==
  /\ last.op = "import"
  /\ last.error = "database"
  /\ last.failedAt = 2
  /\ last.lines = <<LineB, LineBadChunk>>
  /\ \E d \in documents : Some(d.contentHash) = LineB.contentHash

TransformOf(d) ==
  IF d.id \in DOMAIN origin THEN origin[d.id].transformChunk ELSE FALSE

ChunkerTexts(d) ==
  {IF TransformOf(d) THEN d.title \o c.text ELSE c.text : c \in Range(chunkText(d.content))}

OneRowPerHash == \A c1, c2 \in chunks : c1.textHash = c2.textHash => c1 = c2

LinkedToItsChunks(d) ==
  \A c \in Range(chunkText(d.content)) :
    LET text == IF TransformOf(d) THEN d.title \o c.text ELSE c.text
    IN  /\ Cardinality({row \in chunks : row.text = text}) = 1
        /\ \E row \in chunks : \E cs \in chunkSources :
             /\ row.text = text
             /\ cs.chunkId = row.id /\ cs.documentId = d.id
             /\ cs.startIndex = c.startIndex

InsertedBy(by) == {d \in documents : d.id \in DOMAIN origin /\ origin[d.id].by = by}

(* C2 (as amended): whatever the interleaving of ingest and import_backup  *)
(* calls, no two chunks rows share a text_hash, and every document         *)
(* inserted by a completed ingest call has, for each chunk of its          *)
(* (transformed) chunker output, a chunk_sources row pointing to the one   *)
(* chunks row with that text.                                              *)
C2_ChunkDedup ==
  /\ OneRowPerHash
  /\ \A d \in InsertedBy("ingest") : LinkedToItsChunks(d)

(* C2 witness: two ingest calls that ran at the same time have both        *)
(* returned, and their documents D1 and D2 share the chunks row of "P".    *)
C2_Witness ==
  /\ \A p \in Procs : running[p] = Idle
  /\ ops = 2
  /\ Cardinality(InsertedBy("ingest")) = 2
  /\ \E row \in chunks :
       /\ row.text = <<"P">>
       /\ Cardinality({cs.documentId : cs \in {x \in chunkSources : x.chunkId = row.id}}) = 2
  /\ seqs.chunk > 3

(* C2 as stated: once every call has returned, also every document        *)
(* inserted by import_backup has a chunk_sources row for each stored chunk *)
(* text its chunker output contains.                                       *)
C2_AsStated ==
  (\A p \in Procs : running[p] = Idle)
    => /\ OneRowPerHash
       /\ \A d \in InsertedBy("ingest") \cup InsertedBy("import") :
            \A row \in chunks :
              row.text \in ChunkerTexts(d)
                => \E cs \in chunkSources : cs.chunkId = row.id /\ cs.documentId = d.id

(* C5: after detect_communities has run on any set of documents and        *)
(* relation rows, every document has a community_id, two documents share   *)
(* it exactly when an undirected path of relation rows connects them, and  *)
(* the returned count is the number of connected components.               *)
C5_DetectIsComponents ==
  last.op = "detect"
    => /\ IsComponentPartition(documents, documentRelations)
       /\ last.result = Cardinality({Reach({d.id}, documentRelations) : d \in documents})

(* C5 witness: detection ran on three documents, two of them joined by a   *)
(* relation stored in both directions and one isolated, and returned 2.    *)
C5_Witness ==
  /\ last.op = "detect"
  /\ last.result = 2
  /\ Cardinality(documents) = 3
  /\ \E r1, r2 \in documentRelations :
       r1.sourceId = r2.targetId /\ r1.targetId = r2.sourceId /\ r1.sourceId # r1.targetId
  /\ \E d \in documents : \A e \in documents : d.communityId = e.communityId => d = e

(* The (source title, target title) pairs of a relations option.          *)
RelationPairs(rels) ==
  UNION {{<<rels[j].source, parseRelTarget(rels[j].targets[k]).title>> :
            k \in DOMAIN rels[j].targets} : j \in DOMAIN rels}

(* C11: after an ingest call with a relations option, every target title   *)
(* that differs from its source title and is the title of no document     *)
(* (of this batch or stored before) is in the returned                     *)
(* unresolved_relations, whether or not the source title resolves.         *)
C11_UnresolvedReported ==
  (last.op = "ingest" /\ ~last.failed /\ last.call.cfg.relations # NULL)
    => \A pair \in RelationPairs(TheVal(last.call.cfg.relations)) :
         (pair[2] # pair[1] /\ \A d \in documents : d.title # pair[2])
           => pair[2] \in last.result.unresolvedRelations

(* The titles of the documents a running ingest call has inserted.         *)
InsertedTitles(l) == DOMAIN l.titleToNewIds

IdsOfTitle(l, title) == Range(l.titleToNewIds[title])

(* The relations between two documents this call inserted are stored and   *)
(* not reported as unresolved.                                             *)
BatchRelationsResolved(l) ==
  l.cfg.relations # NULL
    => \A pair \in RelationPairs(TheVal(l.cfg.relations)) :
         (pair[1] # pair[2] /\ pair[1] \in InsertedTitles(l)
            /\ pair[2] \in InsertedTitles(l))
           => /\ pair[2] \notin Dedup(l.unresolvedRelations)
              /\ \A sId \in IdsOfTitle(l, pair[1]) : \A tId \in IdsOfTitle(l, pair[2]) :
                   \E row \in documentRelations :
                     row.sourceId = sId /\ row.targetId = tId

(* C12: a statement of an ingest call that adds document_relations rows    *)
(* runs after the call has been through its whole input list, and when the *)
(* call returns, every relation between two documents it inserted, source  *)
(* first or target first in the list, is stored and is not in              *)
(* unresolved_relations.                                                   *)
C12_RelationsAfterDocuments ==
  [][\A p \in Procs :
       /\ (running[p] # Idle /\ running'[p] # running[p]
             /\ documentRelations' # documentRelations)
            => running[p].i > Len(running[p].docs)
       /\ (running[p] # Idle /\ running[p].pc = "done" /\ running'[p] = Idle)
            => BatchRelationsResolved(running[p])]_vars

(* C12 witness: a call that inserted D1 and D2 with relations a -> b and   *)
(* b -> a has returned, both rows are stored and nothing is unresolved.    *)
C12_Witness ==
  /\ last.op = "ingest" /\ ~last.failed
  /\ last.call = [docs |-> <<D1, D2>>,
                  cfg |-> Cfg(Some(<<Rel(<<"a">>, <<Str(<<"b">>)>>),
                                     Rel(<<"b">>, <<Str(<<"a">>)>>)>>), FALSE, FALSE)]
  /\ Len(last.docIds) = 2
  /\ last.result.unresolvedRelations = {}
  /\ \E r1, r2 \in documentRelations :
       /\ r1.sourceId = last.docIds[1] /\ r1.targetId = last.docIds[2]
       /\ r2.sourceId = last.docIds[2] /\ r2.targetId = last.docIds[1]

(* C13: on a database only ingest calls have written, the chunks rows an   *)
(* ingest call creates are as many as the chunks_inserted it returns, also *)
(* when another call runs at the same time on other documents with the     *)
(* same chunk texts.                                                       *)
C13_ChunksInsertedCreated ==
  [][\A p \in Procs :
       /\ (running[p] # Idle /\ running[p].pc = "insertChunks"
             /\ running'[p] # running[p] /\ InsertedBy("import") = {})
            => Cardinality(chunks' \ chunks) = Len(running[p].chunkRows)
       /\ (running[p] # Idle /\ running[p].pc = "done" /\ running'[p] = Idle)
            => last'.result.chunksInserted = Len(running[p].chunkRows)]_vars

(* --------------- community summaries on stored communities ------------- *)
(* build_community_summaries, detect_communities and ingest called on a    *)
(* database that holds communities, with or without a summary.             *)
InitSummaries ==
  /\ \E db \in SearchDBs \cup {EmptyDB} :
       /\ documents = db.documents
       /\ chunks = db.chunks
       /\ chunkSources = db.chunkSources
       /\ documentRelations = db.documentRelations
       /\ seqs = db.seqs
       /\ file = db.file
  /\ last = [op |-> "init"]
  /\ ops = 0
  /\ origin = <<>>
  /\ running = [p \in Procs |-> Idle]
  /\ handle = NewHandle

NextSummaries ==
  \/ \E call \in IngestCalls : Ingest(call)
  \/ DetectCommunities
  \/ \E minSize \in 1..2 : BuildCommunitySummaries(minSize)

SpecSummaries == InitSummaries /\ [][NextSummaries]_vars

(* ---------------------- query: dedup of the results -------------------- *)
MaxResults == 3
QueryPrefixLength == 100

RECURSIVE TextLen(_)
TextLen(text) == IF text = <<>> THEN 0 ELSE SymLen(Head(text)) + TextLen(Tail(text))

(* String.prototype.includes *)
includes(text, part) ==
  \E i \in 0..(Len(text) - Len(part)) : SubSeq(text, i + 1, i + Len(part)) = part

(* String.prototype.slice(0, n) on a text whose symbols end at n or span   *)
(* it: the symbols that lie within the first n characters.                 *)
RECURSIVE slice(_, _)
slice(text, n) ==
  IF text = <<>> \/ SymLen(Head(text)) > n THEN <<>>
  ELSE <<Head(text)>> \o slice(Tail(text), n - SymLen(Head(text)))

(* index.ts lines 151-163: the loop of dedupSubstrings over the items,     *)
(* with the kept items and the set of prefixes seen.                       *)
RECURSIVE dedupSubstringsFrom(_, _, _, _)
dedupSubstringsFrom(items, prefixLen, kept, prefixes) ==
  IF items = <<>> THEN kept
  ELSE LET item == Head(items)
           inHigher == \E j \in DOMAIN kept :
                         /\ TextLen(kept[j].text) > TextLen(item.text)
                         /\ includes(kept[j].text, item.text)
           p == slice(item.text, prefixLen)
           tried == ~inHigher /\ prefixLen > 0
           byPrefix == tried /\ TextLen(p) >= prefixLen /\ p \in prefixes
       IN  dedupSubstringsFrom(Tail(items), prefixLen,
                     IF inHigher \/ byPrefix THEN kept ELSE Append(kept, item),
                     IF tried /\ ~byPrefix THEN prefixes \cup {p} ELSE prefixes)

dedupSubstrings(items, prefixLen) == dedupSubstringsFrom(items, prefixLen, <<>>, {})

(* index.ts line 327; the results are what search (and the reranker, which *)
(* reorders and truncates them) returned: distinct texts in any order.     *)
queryResults(results, enabled) ==
  IF enabled THEN dedupSubstrings(results, QueryPrefixLength) ELSE results

DedupTexts ==
  { <<"P">>, <<"Q">>, <<"P", "Q">>, <<"Q", "R">>, <<"P", "Q", "R">> }

ResultLists ==
  UNION { {s \in [1..n -> {[text |-> t] : t \in DedupTexts}] :
             \A i, j \in 1..n : s[i] = s[j] => i = j} : n \in 0..MaxResults }

InitQuery ==
  /\ documents = EmptyDB.documents
  /\ chunks = EmptyDB.chunks
  /\ chunkSources = EmptyDB.chunkSources
  /\ documentRelations = EmptyDB.documentRelations
  /\ seqs = EmptyDB.seqs
  /\ file = EmptyDB.file
  /\ \E results \in ResultLists : last = [op |-> "results", results |-> results]
  /\ ops = 0
  /\ origin = <<>>
  /\ running = [p \in Procs |-> Idle]
  /\ handle = NewHandle

Query(enabled) ==
  /\ last.op = "results"
  /\ last' = [op |-> "query", call |-> [results |-> last.results, dedup |-> enabled],
              result |-> queryResults(last.results, enabled)]
  /\ ops' = ops + 1
  /\ UNCHANGED <<documents, chunks, chunkSources, documentRelations, seqs, file,
                 origin, running, handle>>

NextQuery == \E enabled \in BOOLEAN : Query(enabled)

SpecQuery == InitQuery /\ [][NextQuery]_vars

(* ------------------ the handle and its database connection ------------- *)
(* Callers run operations on one Rag, one statement (one await) per step.  *)
(* Every operation but close and drop starts with `await this.init()`.     *)

(* part_005 lines 76-80: createDb makes a connection of its own.           *)
createDb(h) == [h EXCEPT !.made = @ + 1, !.open = @ \cup {h.made + 1}]

(* `client.end()` *)
end(h, client) == [h EXCEPT !.open = @ \ {client}]

(* index.ts lines 294-296: init up to `await initSchema(...)`, called by   *)
(* an operation (for example lines 206, 224, 291).                         *)
InitStart(p) ==
  /\ ops < MaxOps
  /\ running[p] = Idle
  /\ IF handle.db # NULL
       THEN /\ running' = [running EXCEPT ![p] = [pc |-> "operation", db |-> TheVal(handle.db)]]
            /\ UNCHANGED handle
       ELSE /\ handle' = createDb(handle)
            /\ running' = [running EXCEPT ![p] = [pc |-> "initSchema", client |-> handle.made + 1]]
  /\ ops' = ops + 1
  /\ UNCHANGED <<documents, chunks, chunkSources, documentRelations, seqs, file, last, origin>>

(* index.ts lines 297-300: initSchema has returned.                        *)
InitSchemaDone(p) ==
  /\ running[p].pc = "initSchema"
  /\ handle' = [handle EXCEPT !.client = Some(running[p].client), !.db = Some(running[p].client)]
  /\ running' = [running EXCEPT ![p] = [pc |-> "operation", db |-> running[p].client]]
  /\ UNCHANGED <<documents, chunks, chunkSources, documentRelations, seqs, file, last, ops, origin>>

(* The operation has run its statements on the db that init returned.      *)
OperationDone(p) ==
  /\ running[p].pc = "operation"
  /\ last' = [op |-> "operation", db |-> running[p].db]
  /\ running' = [running EXCEPT ![p] = Idle]
  /\ UNCHANGED <<documents, chunks, chunkSources, documentRelations, seqs, file, ops, origin,
                 handle>>

(* index.ts lines 202-204: close up to `await this._client.end()`.         *)
CloseStart(p) ==
  /\ ops < MaxOps
  /\ running[p] = Idle
  /\ IF handle.client # NULL
       THEN /\ running' = [running EXCEPT ![p] = [pc |-> "end", client |-> TheVal(handle.client)]]
            /\ UNCHANGED last
       ELSE /\ last' = [op |-> "close"]
            /\ UNCHANGED running
  /\ ops' = ops + 1
  /\ UNCHANGED <<documents, chunks, chunkSources, documentRelations, seqs, file, origin, handle>>

(* `this._client.end()` has returned and close returns.                    *)
CloseDone(p) ==
  /\ running[p].pc = "end"
  /\ handle' = end(handle, running[p].client)
  /\ last' = [op |-> "close"]
  /\ running' = [running EXCEPT ![p] = Idle]
  /\ UNCHANGED <<documents, chunks, chunkSources, documentRelations, seqs, file, ops, origin>>

(* index.ts lines 212-218 and part_005 lines 87-89: drop up to its DROP    *)
(* TABLE statements, on this.db or on a connection dropSchema makes.       *)
DropStart(p) ==
  /\ ops < MaxOps
  /\ running[p] = Idle
  /\ IF handle.db # NULL
       THEN /\ running' = [running EXCEPT ![p] = [pc |-> "dropTables"]]
            /\ UNCHANGED handle
       ELSE /\ handle' = createDb(handle)
            /\ running' = [running EXCEPT ![p] = [pc |-> "dropSchema", client |-> handle.made + 1]]
  /\ ops' = ops + 1
  /\ UNCHANGED <<documents, chunks, chunkSources, documentRelations, seqs, file, last, origin>>

(* index.ts lines 214-219 and part_005 lines 90-94: the tables are         *)
(* dropped, dropSchema ends its connection, drop goes on to                *)
(* `if (this._client) await this._client.end()`.                           *)
DropTables(p) ==
  /\ running[p].pc \in {"dropTables", "dropSchema"}
  /\ SetDB(EmptyDB)
  /\ handle' = IF running[p].pc = "dropSchema" THEN end(handle, running[p].client) ELSE handle
  /\ running' = [running EXCEPT ![p] = [pc |-> "dropEnd", client |-> handle.client]]
  /\ UNCHANGED <<last, ops, origin>>

(* index.ts lines 219-221 *)
DropDone(p) ==
  /\ running[p].pc = "dropEnd"
  /\ handle' = [(IF running[p].client # NULL THEN end(handle, TheVal(running[p].client))
                 ELSE handle) EXCEPT !.client = NULL, !.db = NULL]
  /\ last' = [op |-> "drop"]
  /\ running' = [running EXCEPT ![p] = Idle]
  /\ UNCHANGED <<documents, chunks, chunkSources, documentRelations, seqs, file, ops, origin>>

NextHandle ==
  \E p \in Procs :
    \/ InitStart(p)
    \/ InitSchemaDone(p)
    \/ OperationDone(p)
    \/ CloseStart(p)
    \/ CloseDone(p)
    \/ DropStart(p)
    \/ DropTables(p)
    \/ DropDone(p)

SpecHandle == Init /\ [][NextHandle]_vars

(* ------------------ the chunker, character by character ---------------- *)
(* A text is the sequence of its characters; positions are 1-based here    *)
(* and the offsets of the outputs 0-based as in the code.                  *)
MaxSegments == 2
DefaultChunkSize == 2048
OcrRunLen == 200
NeedleLen == 80
NeedleBack == 10

Space == {" ", "\n"}
Digit == {"0", "1", "2", "3", "4", "5", "6", "7", "8", "9"}

Rep(c, n) == [i \in 1..n |-> c]

(* How many characters in a row from position i are in S (in = TRUE) or    *)
(* outside S (in = FALSE).                                                 *)
RunLen(text, i, S, in) ==
  LET stops == {j \in i..Len(text) : (text[j] \in S) # in}
  IN  IF stops = {} THEN Len(text) - i + 1
      ELSE (CHOOSE j \in stops : \A k \in stops : j <= k) - i

(* String.prototype.trim *)
trim(text) ==
  LET keep == {i \in DOMAIN text : text[i] \notin Space}
  IN  IF keep = {} THEN <<>> ELSE SubSeq(text, RunLen(text, 1, Space, TRUE) + 1, Max(keep))

(* part_013 line 10: /\S{200,}/u *)
RE_OCR_GARBAGE(text) ==
  \E i \in DOMAIN text :
    /\ i = 1 \/ text[i - 1] \in Space
    /\ RunLen(text, i, Space, FALSE) >= OcrRunLen

(* part_013 line 11: /^#{1,6}\s/mu *)
RE_HEADER(text) ==
  \E i \in DOMAIN text :
    /\ i = 1 \/ text[i - 1] = "\n"
    /\ text[i] = "#"
    /\ LET h == RunLen(text, i, {"#"}, TRUE)
       IN  h <= 6 /\ i + h <= Len(text) /\ text[i + h] \in Space

(* part_013 line 12: /^\s*[-*>|]|\d+\.\s/u *)
RE_LIST(text) ==
  \/ LET w == RunLen(text, 1, Space, TRUE)
     IN  w < Len(text) /\ text[w + 1] \in {"-", "*", ">", "|"}
  \/ \E i \in DOMAIN text :
       text[i] \in Digit /\ i + 2 <= Len(text) /\ text[i + 1] = "." /\ text[i + 2] \in Space

(* part_013 line 13: the length of the match of SPLIT_LEVELS[level] that   *)
(* split finds at position q of text, -1 when there is none. split tries   *)
(* the positions from left to right and goes on after a match, so a run of *)
(* whitespace is matched from its start only; the match of length 0 of     *)
(* level 0 does not split at the start of the text.                        *)
matchLen(level, text, q) ==
  CASE level = 0 ->
         IF q > 1 /\ text[q] = "\n" /\ q < Len(text) /\ text[q + 1] = "#"
           THEN LET h == RunLen(text, q + 1, {"#"}, TRUE)
                IN  IF h <= 6 /\ q + h < Len(text) /\ text[q + h + 1] \in Space
                      THEN 0 ELSE -1
           ELSE -1
    [] level = 1 ->
         IF text[q] = "\n" /\ (q = 1 \/ text[q - 1] # "\n")
                           /\ RunLen(text, q, {"\n"}, TRUE) >= 2
           THEN RunLen(text, q, {"\n"}, TRUE) ELSE -1
    [] level = 2 ->
         IF text[q] \in Space /\ q > 1 /\ text[q - 1] \in {".", "!", "?"}
           THEN RunLen(text, q, Space, TRUE) ELSE -1
    [] level = 3 ->
         IF text[q] \in Space /\ q > 1 /\ text[q - 1] \in {";", ","}
           THEN RunLen(text, q, Space, TRUE) ELSE -1
    [] level = 4 -> IF text[q] = "\n" THEN 1 ELSE -1
    [] level = 5 ->
         IF text[q] \in Space /\ (q = 1 \/ text[q - 1] \notin Space)
           THEN RunLen(text, q, Space, TRUE) ELSE -1

(* String.prototype.split(SPLIT_LEVELS[level]): the pieces between the     *)
(* matches, empty pieces included.                                         *)
split(text, level) ==
  LET at == {q \in DOMAIN text : matchLen(level, text, q) >= 0}
      nth(k) == CHOOSE q \in at : Cardinality({r \in at : r < q}) = k - 1
  IN  [k \in 1..(Cardinality(at) + 1) |->
         SubSeq(text,
                IF k = 1 THEN 1 ELSE nth(k - 1) + matchLen(level, text, nth(k - 1)),
                IF k = Cardinality(at) + 1 THEN Len(text) ELSE nth(k) - 1)]

(* part_013 lines 14-15 *)
isStructuralBreak(line, next) ==
  trim(line) = <<>> \/ trim(next) = <<>> \/ RE_HEADER(next) \/ RE_LIST(next)

(* part_013 lines 19-26 *)
RECURSIVE joinLines(_, _)
joinLines(lines, i) ==
  IF i = Len(lines) THEN lines[i]
  ELSE lines[i]
         \o (IF isStructuralBreak(lines[i], lines[i + 1]) THEN <<"\n">> ELSE <<" ">>)
         \o joinLines(lines, i + 1)

(* part_013 lines 16-27 *)
unwrapHardBreaks(text) == joinLines(split(text, 4), 1)

(* part_013 lines 28-40 *)
RECURSIVE splitAtLevel(_, _, _)
RECURSIVE splitPieces(_, _, _)
splitAtLevel(text, maxSize, level) ==
  IF Len(text) <= maxSize \/ level > 5 THEN <<text>>
  ELSE LET pieces == split(text, level)
       IN  IF Len(pieces) <= 1 THEN splitAtLevel(text, maxSize, level + 1)
           ELSE splitPieces(pieces, maxSize, level)

(* part_013 lines 35-37 *)
splitPieces(pieces, maxSize, level) ==
  IF pieces = <<>> THEN <<>>
  ELSE LET p == Head(pieces)
       IN  (IF p = <<>> THEN <<>>
            ELSE IF Len(p) <= maxSize THEN <<p>>
            ELSE splitAtLevel(p, maxSize, level + 1))
           \o splitPieces(Tail(pieces), maxSize, level)

(* part_013 line 41 *)
mergeSep(cur, next) ==
  IF (cur # <<>> /\ cur[Len(cur)] = "\n") \/ (next # <<>> /\ next[1] = "#")
    THEN <<"\n">> ELSE <<" ">>

(* part_013 lines 45-54 *)
RECURSIVE mergeFrom(_, _, _, _)
mergeFrom(pieces, maxSize, merged, cur) ==
  IF pieces = <<>> THEN (IF cur # <<>> THEN Append(merged, cur) ELSE merged)
  ELSE LET t == trim(Head(pieces))
           joined == cur \o mergeSep(cur, t) \o t
       IN  IF t = <<>> THEN mergeFrom(Tail(pieces), maxSize, merged, cur)
           ELSE IF cur = <<>> THEN mergeFrom(Tail(pieces), maxSize, merged, t)
           ELSE IF Len(joined) <= maxSize
             THEN mergeFrom(Tail(pieces), maxSize, merged, joined)
           ELSE mergeFrom(Tail(pieces), maxSize, Append(merged, cur), t)

(* part_013 lines 42-56 *)
mergePieces(pieces, maxSize) == mergeFrom(pieces, maxSize, <<>>, <<>>)

(* part_013 lines 69-80 *)
addOverlap(texts, overlapSize) ==
  IF overlapSize <= 0 \/ Len(texts) <= 1 THEN texts
  ELSE [i \in DOMAIN texts |->
          IF i = 1 THEN texts[1]
          ELSE LET prev == texts[i - 1]
                   cur == texts[i]
                   tail == SubSeq(prev, Max({1, Len(prev) - overlapSize + 1}), Len(prev))
               IN  tail \o mergeSep(tail, cur) \o cur]

(* A variant of indexOf that searches the whole source.                    *)
indexOfAnywhere(source, needle, from) ==
  LET found == {i \in 0..(Len(source) - Len(needle)) :
                  SubSeq(source, i + 1, i + Len(needle)) = needle}
  IN  IF found = {} THEN -1 ELSE CHOOSE i \in found : \A j \in found : i <= j

(* String.prototype.indexOf(needle, from), 0-based *)
indexOf(source, needle, from) ==
  LET found == {i \in from..(Len(source) - Len(needle)) :
                  SubSeq(source, i + 1, i + Len(needle)) = needle}
  IN  IF found = {} THEN -1 ELSE CHOOSE i \in found : \A j \in found : i <= j

(* part_013 lines 60-66 *)
RECURSIVE outputsFrom(_, _, _)
outputsFrom(texts, source, offset) ==
  IF texts = <<>> THEN <<>>
  ELSE LET chunk == Head(texts)
           needle == SubSeq(chunk, 1, IF Len(chunk) < NeedleLen THEN Len(chunk) ELSE NeedleLen)
           idx == indexOf(source, needle, Max({0, offset - NeedleBack}))
           start == IF idx = -1 THEN offset ELSE idx
       IN  <<[endIndex |-> start + Len(chunk), startIndex |-> start, text |-> chunk,
              tokenCount |-> Len(chunk)]>>
           \o outputsFrom(Tail(texts), source, start + Len(chunk))

(* part_013 lines 57-68 *)
buildOutputsOf(texts, source) == outputsFrom(texts, source, 0)

(* part_013 lines 81-93, without config.normalize *)
chunkTextOf(text, config) ==
  LET maxSize == Default(config.chunkSize, DefaultChunkSize)
      overlapSize == Default(config.overlap, 0)
      normalized == unwrapHardBreaks(text)
      pieces == splitAtLevel(normalized, maxSize, 0)
      merged == mergePieces(pieces, maxSize)
      withOverlap == IF overlapSize > 0 THEN addOverlap(merged, overlapSize) ELSE merged
      filtered == SelectSeq(withOverlap,
                            LAMBDA chunk : Len(chunk) >= MinChunkLen /\ ~RE_OCR_GARBAGE(chunk))
  IN  buildOutputsOf(filtered, normalized)

(* Texts of up to MaxSegments segments: a sentence, a header line, a word  *)
(* longer than a small chunk size, a run that counts as OCR garbage and a  *)
(* sentence too short for a chunk, separated by a blank, a line break or   *)
(* an empty line.                                                          *)
Segments ==
  { Rep("a", 56) \o <<".">>,
    <<"#", " ">> \o Rep("b", 55),
    Rep("a", 150),
    Rep("b", 210),
    <<"a", "b", ".">> }

Separators == { <<" ">>, <<"\n">>, <<"\n", "\n">> }

RECURSIVE TextsOf(_)
TextsOf(n) ==
  IF n = 1 THEN Segments
  ELSE {t \o s \o g : t \in TextsOf(n - 1), s \in Separators, g \in Segments}

ChunkTexts == UNION {TextsOf(n) : n \in 1..MaxSegments}

ChunkConfigs ==
  { [chunkSize |-> NULL, overlap |-> NULL],
    [chunkSize |-> Some(60), overlap |-> NULL],
    [chunkSize |-> Some(60), overlap |-> Some(20)],
    [chunkSize |-> Some(120), overlap |-> Some(20)] }

InitChunk ==
  /\ documents = EmptyDB.documents
  /\ chunks = EmptyDB.chunks
  /\ chunkSources = EmptyDB.chunkSources
  /\ documentRelations = EmptyDB.documentRelations
  /\ seqs = EmptyDB.seqs
  /\ file = EmptyDB.file
  /\ \E text \in ChunkTexts : last = [op |-> "text", text |-> text]
  /\ ops = 0
  /\ origin = <<>>
  /\ running = [p \in Procs |-> Idle]
  /\ handle = NewHandle

ChunkText(config) ==
  /\ last.op = "text"
  /\ last' = [op |-> "chunkText", call |-> [text |-> last.text, config |-> config],
              normalized |-> unwrapHardBreaks(last.text),
              result |-> chunkTextOf(last.text, config)]
  /\ ops' = ops + 1
  /\ UNCHANGED <<documents, chunks, chunkSources, documentRelations, seqs, file,
                 origin, running, handle>>

NextChunk == \E config \in ChunkConfigs : ChunkText(config)

SpecChunk == InitChunk /\ [][NextChunk]_vars

(* ------------------------- claims about search ------------------------- *)
Searched == last.op = "search" /\ last.call.queryEmbedding

Hybrid == Searched /\ last.call.mode = "hybrid"

IdsOf(list) == {list[j].id : j \in DOMAIN list}

PositionsOf(list, id) == {j \in DOMAIN list : list[j].id = id}

LastPosition(list, id) ==
  IF PositionsOf(list, id) = {} THEN 0 ELSE Max(PositionsOf(list, id))

Term(weight, rrfK, rank) == IF rank > 0 THEN Over(weight, rrfK + rank) ELSE Num(0)

NonIncreasing(list) ==
  \A i, j \in DOMAIN list : i < j => ~Less(list[i].score, list[j].score)

(* The RRF score of a chunk whose rows end at vectorRank and bm25Rank.     *)
Rrf(c, vectorRank, bm25Rank) ==
  Plus(Term(Default(c.config.vectorWeight, Num(1)), c.rrfK, vectorRank),
       Term(Default(c.config.bm25Weight, Num(1)), c.rrfK, bm25Rank))

ScoreOfId(c, id) ==
  Rrf(c, LastPosition(c.vectorResults, id), LastPosition(c.bm25Results, id))

(* C14 (as amended): in hybrid mode, whatever lists the two sub-searches   *)
(* return, the fused list has no chunk id twice, holds only chunk ids of   *)
(* the two lists, as many as there are and at most 3 * limit, those it     *)
(* leaves out scoring no more than those it holds; the score of a chunk is *)
(* vector_weight / (rrf_k + rank_v) + bm25_weight / (rrf_k + rank_b), a    *)
(* rank being the 1-based position of the last row of the chunk in the     *)
(* list and the term 0 when the list has no row of it; the list is in      *)
(* order of non-increasing score.                                          *)
C14_Fusion ==
  Hybrid =>
    LET c == last.call
        found == IdsOf(c.vectorResults) \cup IdsOf(c.bm25Results)
    IN  /\ \A i, j \in DOMAIN c.raw : c.raw[i].id = c.raw[j].id => i = j
        /\ IdsOf(c.raw) \subseteq found
        /\ Len(c.raw) = Least(3 * c.limit, Cardinality(found))
        /\ \A j \in DOMAIN c.raw : Same(c.raw[j].score, ScoreOfId(c, c.raw[j].id))
        /\ \A id \in found \ IdsOf(c.raw) : \A j \in DOMAIN c.raw :
             ~Less(c.raw[j].score, ScoreOfId(c, id))
        /\ NonIncreasing(c.raw)

(* C14 witness: a fused list of three chunks, one in both lists, one only  *)
(* in the vector list and one only in the BM25 list, with weights other    *)
(* than 1.                                                                 *)
C14_Witness ==
  /\ Hybrid
  /\ last.call.config.vectorWeight # NULL
  /\ Len(last.call.raw) >= 3
  /\ \E x, y, z \in IdsOf(last.call.raw) :
       /\ x \in IdsOf(last.call.vectorResults) \cap IdsOf(last.call.bm25Results)
       /\ y \in IdsOf(last.call.vectorResults) \ IdsOf(last.call.bm25Results)
       /\ z \in IdsOf(last.call.bm25Results) \ IdsOf(last.call.vectorResults)

(* C14 as stated: every chunk id of the two lists is once in the fused     *)
(* list, with the score of its ranks (the position of any of its rows in a *)
(* list), and the fused list is in order of non-increasing score.          *)
C14_AsStated ==
  Hybrid =>
    LET c == last.call
    IN  /\ \A id \in IdsOf(c.vectorResults) \cup IdsOf(c.bm25Results) :
             /\ Cardinality(PositionsOf(c.raw, id)) = 1
             /\ \E v \in PositionsOf(c.vectorResults, id) \cup {0} :
                  \E b \in PositionsOf(c.bm25Results, id) \cup {0} :
                    /\ v = 0 => PositionsOf(c.vectorResults, id) = {}
                    /\ b = 0 => PositionsOf(c.bm25Results, id) = {}
                    /\ \A j \in PositionsOf(c.raw, id) :
                         Same(c.raw[j].score, Rrf(c, v, b))
        /\ NonIncreasing(c.raw)

(* C15 (as amended): in hybrid mode a row of the fused list has mode       *)
(* vector when the vector sub-search found its chunk, also when the BM25   *)
(* sub-search found it too, and mode bm25 when only the BM25 sub-search    *)
(* found it.                                                               *)
C15_HybridModes ==
  Hybrid =>
    \A j \in DOMAIN last.call.raw :
      last.call.raw[j].mode =
        IF last.call.raw[j].id \in IdsOf(last.call.vectorResults) THEN "vector" ELSE "bm25"

(* C15 witness: a fused list with a row found by both sub-searches and a   *)
(* row found by the BM25 sub-search only.                                  *)
C15_Witness ==
  /\ Hybrid
  /\ \E i, j \in DOMAIN last.call.raw :
       /\ last.call.raw[i].id \in IdsOf(last.call.vectorResults)
       /\ last.call.raw[i].id \in IdsOf(last.call.bm25Results)
       /\ last.call.raw[j].id \notin IdsOf(last.call.vectorResults)
       /\ last.call.raw[j].mode = "bm25"

(* C15 as stated: every row of the fused list has mode vector.             *)
C15_AsStated ==
  Hybrid => \A j \in DOMAIN last.call.raw : last.call.raw[j].mode = "vector"

(* The rows of a list whose text no earlier row has. *)
FirstOfEachText(list) ==
  SelectSeq([j \in DOMAIN list |-> [row |-> list[j], at |-> j]],
            LAMBDA x : \A k \in 1..(x.at - 1) : list[k].text # x.row.text)

Unexpanded(c) ==
  /\ c.config.graphHops = NULL \/ TheVal(c.config.graphHops) <= 0
  /\ c.config.communityBoost = NULL

(* C16: without graph_hops and community_boost, search in any mode returns *)
(* the first limit rows (10 by default) of the primary ranking from which  *)
(* every row with the text of an earlier row is removed: at most limit     *)
(* rows, in the order of the ranking, no two with one text.                *)
C16_DedupAndLimit ==
  (last.op = "search" /\ Unexpanded(last.call)) =>
    LET c == last.call
        kept == FirstOfEachText(c.raw)
    IN  /\ Len(c.results) = Least(c.limit, Len(kept))
        /\ \A j \in DOMAIN c.results : c.results[j] = kept[j].row
        /\ Len(c.results) <= c.limit
        /\ \A i, j \in DOMAIN c.results : c.results[i].text = c.results[j].text => i = j

(* C16 witness: a vector search with limit 2 whose ranking starts with two *)
(* rows of one text returns the first and the third row.                   *)
C16_Witness ==
  /\ last.op = "search" /\ Unexpanded(last.call)
  /\ last.call.mode = "vector" /\ last.call.limit = 2
  /\ Len(last.call.raw) >= 3
  /\ last.call.raw[1].text = last.call.raw[2].text
  /\ last.call.results = <<last.call.raw[1], last.call.raw[3]>>

GraphOn(c) == c.config.graphHops # NULL /\ TheVal(c.config.graphHops) > 0

Hops(c) == TheVal(c.config.graphHops)

(* What the visited array gives every row of the traversal. *)
RelatedSound(c) ==
  \A r \in c.related :
    /\ Len(r.visited) = r.depth
    /\ r.depth >= 1 /\ r.depth <= Hops(c)
    /\ \A i, j \in DOMAIN r.visited : r.visited[i] = r.visited[j] => i = j
    /\ r.visited[r.depth] = r.docId
    /\ Range(r.visited) \cap c.initialDocIds = {}

(* C17: graph expansion terminates on every relation graph: a path of the  *)
(* traversal visits no document twice, has at most graph_hops edges and    *)
(* reaches no seed, and every round of the recursion produces only paths   *)
(* one edge longer than the round before, so there are at most graph_hops  *)
(* rounds.                                                                 *)
C17_TraversalTerminates ==
  [][(running[1].pc = "related" /\ running'[1].pc # "idle") =>
       /\ RelatedSound(running'[1])
       /\ running'[1].pc = "related" =>
            /\ running'[1].working # {}
            /\ \A r \in running'[1].working :
                 /\ r.depth <= Hops(running[1])
                 /\ \A q \in running[1].working : r.depth = q.depth + 1]_vars

(* C17 witness: the traversal of a cycle has ended with a document reached *)
(* by a path of one edge and by a path of two, with hops to spare.         *)
C17_Witness ==
  /\ running[1].pc = "graphChunks"
  /\ Hops(running[1]) = MaxGraphHops
  /\ \A x \in documents : \E y \in documentRelations : y.sourceId = x.id
  /\ \E r, q \in running[1].related :
       r.docId = q.docId /\ r.depth = 1 /\ q.depth = 2
  /\ \A r \in running[1].related : r.depth < MaxGraphHops

Neighbours(S) ==
  {x.targetId : x \in {y \in documentRelations : y.sourceId \in S}}
    \cup {x.sourceId : x \in {y \in documentRelations : y.targetId \in S}}

(* The documents at undirected distance h or less from a document of S. *)
RECURSIVE Within(_, _)
Within(S, h) == IF h = 0 THEN S ELSE Within(S \cup Neighbours(S), h - 1)

Traversed(c) == c.pc \in {"graphChunks", "boost", "done"} /\ GraphOn(c)

(* C18: when the traversal has ended, the documents it reached are the     *)
(* documents that are no seed and are at undirected distance graph_hops or *)
(* less from a seed, whichever end of a relation row is its source.        *)
C18_ReachedWithinHops ==
  (running[1].pc # "idle" /\ Traversed(running[1])) =>
    {r.docId : r \in running[1].related}
      = Within(running[1].initialDocIds, Hops(running[1])) \ running[1].initialDocIds

(* C18 witness: a document is reached from a seed through a relation row   *)
(* whose target is the seed, no row being stored the other way round, and  *)
(* another through a row whose source is a seed.                           *)
C18_Witness ==
  /\ running[1].pc # "idle" /\ Traversed(running[1])
  /\ \E x \in documentRelations :
       /\ x.targetId \in running[1].initialDocIds
       /\ x.sourceId \in {r.docId : r \in running[1].related}
       /\ ~\E y \in documentRelations : y.sourceId = x.targetId /\ y.targetId = x.sourceId
  /\ \E x \in documentRelations :
       /\ x.sourceId \in running[1].initialDocIds
       /\ x.targetId \in {r.docId : r \in running[1].related}
       /\ ~\E y \in documentRelations : y.sourceId = x.targetId /\ y.targetId = x.sourceId

(* The weights of the paths of n edges or less from a seed to document d   *)
(* that pass through no seed and through no document twice: the product of *)
(* edge weight * decay over the edges.                                     *)
RECURSIVE WeightsTo(_, _, _, _, _)
WeightsTo(d, avoid, n, seeds, decay) ==
  IF n = 0 THEN {}
  ELSE UNION {LET u == otherEnd(x, d)
                  edge == Times(Num(x.weight), decay)
              IN  IF u \in seeds THEN {edge}
                  ELSE IF u \in avoid \cup {d} THEN {}
                  ELSE {Times(w, edge) : w \in WeightsTo(u, avoid \cup {d}, n - 1, seeds, decay)}
                : x \in {y \in documentRelations : y.sourceId = d \/ y.targetId = d}}

PathWeightsOf(c, d) ==
  WeightsTo(d, {}, Hops(c), c.initialDocIds, Default(c.config.graphDecay, Num(1)))

GraphResults(c) == SelectSeq(c.results, LAMBDA r : r.mode = "graph")

(* C19: the path_weight kept for a reached document is the greatest weight *)
(* of a traversal path from a seed to it; the graph-mode results are in    *)
(* order of non-increasing path_weight of their documents, the one at      *)
(* 0-based rank i has score graph_weight / (rrf_k + i + 1), and of two of  *)
(* them the one whose document has the greater path_weight has the greater *)
(* score.                                                                  *)
C19_GraphScores ==
  (last.op = "search" /\ GraphOn(last.call)) =>
    LET c == last.call
        gs == GraphResults(c)
        W(r) == c.docWeights[r.documentId].pathWeight
    IN  /\ \A d \in DOMAIN c.docWeights :
             /\ \E w \in PathWeightsOf(c, d) : Same(w, c.docWeights[d].pathWeight)
             /\ \A w \in PathWeightsOf(c, d) : ~Less(c.docWeights[d].pathWeight, w)
        /\ \A j \in DOMAIN gs :
             /\ gs[j].documentId \in DOMAIN c.docWeights
             /\ Same(gs[j].score, Over(Default(c.config.graphWeight, Num(1)), c.rrfK + j))
        /\ \A i, j \in DOMAIN gs :
             /\ i < j => ~Less(W(gs[i]), W(gs[j]))
             /\ Less(W(gs[j]), W(gs[i])) => Less(gs[j].score, gs[i].score)

(* C19 witness: a reached document with two paths of different weight, and *)
(* two graph-mode results whose documents differ in path_weight.           *)
C19_Witness ==
  /\ last.op = "search" /\ GraphOn(last.call)
  /\ \E d \in DOMAIN last.call.docWeights :
       \E w \in PathWeightsOf(last.call, d) : Less(w, last.call.docWeights[d].pathWeight)
  /\ \E i, j \in DOMAIN GraphResults(last.call) :
       Less(last.call.docWeights[GraphResults(last.call)[j].documentId].pathWeight,
            last.call.docWeights[GraphResults(last.call)[i].documentId].pathWeight)

BoostOn(c) ==
  c.config.communityBoost # NULL /\ Less(Num(0), TheVal(c.config.communityBoost))

CommunityResults(c) == SelectSeq(c.results, LAMBDA r : r.mode = "community")

TimesFound(list, cid) == Cardinality({j \in DOMAIN list : list[j].communityId = Some(cid)})

(* C20: with community_boost = b > 0 a result of mode community is a chunk *)
(* the results collected before the boost do not hold, no two are one      *)
(* chunk, it is linked to a document that is no community summary and is   *)
(* of the community that most of the collected results are of, and the one *)
(* at 0-based rank i has score b / (rrf_k + i + 1), which is in            *)
(* (0, b / (rrf_k + 1)].                                                   *)
C20_CommunityResults ==
  (last.op = "search" /\ BoostOn(last.call)) =>
    LET c == last.call
        b == TheVal(c.config.communityBoost)
        cs == CommunityResults(c)
    IN  /\ \A j \in DOMAIN cs :
             /\ cs[j].id \notin IdsOf(c.collected)
             /\ \A i \in DOMAIN cs : cs[i].id = cs[j].id => i = j
             /\ \E d \in documents :
                  /\ \E x \in chunkSources : x.chunkId = cs[j].id /\ x.documentId = d.id
                  /\ ~isSummary(d)
                  /\ d.communityId = cs[j].communityId
             /\ \E cid \in {TheVal(d.communityId) : d \in {e \in documents : e.communityId # NULL}} :
                  /\ cs[j].communityId = Some(cid)
                  /\ TimesFound(c.collected, cid) >= 1
                  /\ \A d \in {e \in documents : e.communityId # NULL} :
                       TimesFound(c.collected, TheVal(d.communityId))
                         <= TimesFound(c.collected, cid)
             /\ Same(cs[j].score, Over(b, c.rrfK + j))
             /\ Less(Num(0), cs[j].score)
             /\ ~Less(Over(b, c.rrfK + 1), cs[j].score)
        /\ \A j \in DOMAIN c.results : c.results[j].mode = "community" \/
             \E i \in DOMAIN c.collected : c.collected[i].id = c.results[j].id

(* C20 witness: a search returns a community result while a chunk of the   *)
(* same community is among the collected results and the database holds a  *)
(* community summary.                                                      *)
C20_Witness ==
  /\ last.op = "search" /\ BoostOn(last.call)
  /\ \E d \in documents : isSummary(d)
  /\ \E j \in DOMAIN last.call.results :
       /\ last.call.results[j].mode = "community"
       /\ \E i \in DOMAIN last.call.collected :
            last.call.collected[i].communityId = last.call.results[j].communityId

(* C29: no chunk id occurs twice in the list search returns. *)
C29_DistinctChunkIds ==
  last.op = "search" =>
    \A i, j \in DOMAIN last.call.results :
      last.call.results[i].id = last.call.results[j].id => i = j

(* C30 (as amended): in hybrid mode with limit L the vector and the BM25   *)
(* sub-search are each issued with a row limit of 9 * L, and the fused     *)
(* list is cut at 3 * L; in vector and in bm25 mode the one search is      *)
(* issued with 3 * L.                                                      *)
C30_IssuedLimits ==
  (running[1].pc \notin {"idle", "embed", "primary"} /\ running[1].issued > 0) =>
    /\ running[1].issued = IF running[1].mode = "hybrid" THEN 9 * running[1].limit
                           ELSE 3 * running[1].limit
    /\ Len(running[1].vectorResults) <= running[1].issued
    /\ Len(running[1].bm25Results) <= running[1].issued
    /\ Len(running[1].raw) <= 3 * running[1].limit

(* C30 witness: a hybrid search with limit 1 whose vector sub-search has   *)
(* returned more than three rows.                                          *)
C30_Witness ==
  /\ running[1].pc \notin {"idle", "embed", "primary"}
  /\ running[1].mode = "hybrid" /\ running[1].limit = 1
  /\ Len(running[1].vectorResults) > 3

(* C30 as stated: in hybrid mode with limit L the sub-searches are issued  *)
(* with a row limit of 3 * L.                                              *)
C30_AsStated ==
  (running[1].pc \notin {"idle", "embed", "primary"} /\ running[1].mode = "hybrid"
     /\ running[1].issued > 0) =>
    running[1].issued = 3 * running[1].limit

(* ------------------------- duplicates of ingest ------------------------ *)
SameDocument(a, b) == a.title = b.title /\ a.content = b.content

(* The entries of docs that a stored document or an earlier entry equals   *)
(* in title and content.                                                   *)
Repeats(docs) ==
  {i \in DOMAIN docs :
     \/ \E d \in documents : SameDocument(d, docs[i])
     \/ \E j \in 1..(i - 1) : SameDocument(docs[j], docs[i])}

MembersOf(docs, cId) == {d \in docs : d.communityId = Some(cId) /\ ~isSummary(d)}

SummariesOf(docs, cId) == {d \in docs : isSummary(d) /\ d.metadata.communityId = Some(cId)}

(* C24: when build_community_summaries returns, the database holds one     *)
(* community-summary document for each community of min_community_size or  *)
(* more documents that are no summaries, and no community-summary document *)
(* of any other community, whatever summaries it held before.              *)
C24_OneSummaryEach ==
  [][last'.op = "summaries" =>
       /\ \A d \in {x \in documents' : isSummary(x)} :
            /\ d.metadata.communityId # NULL
            /\ Cardinality(MembersOf(documents', TheVal(d.metadata.communityId)))
                 >= last'.call.minSize
       /\ \A m \in {x \in documents' : ~isSummary(x) /\ x.communityId # NULL} :
            Cardinality(SummariesOf(documents', TheVal(m.communityId)))
              = IF Cardinality(MembersOf(documents', TheVal(m.communityId)))
                     >= last'.call.minSize
                  THEN 1 ELSE 0
       /\ {x \in documents' : ~isSummary(x)} = {x \in documents : ~isSummary(x)}]_vars

(* C24 witness: build_community_summaries has returned with min size 2 on  *)
(* a database where a summary has a community_id of its own and a          *)
(* community of one document exists: the database holds a summary of a     *)
(* community of two and none of the others.                                *)
C24_Witness ==
  /\ last.op = "summaries" /\ last.call.minSize = 2
  /\ \E d \in documents : isSummary(d) /\ d.communityId = NULL
  /\ \E d \in documents : isSummary(d) /\ d.id > 4
  /\ \E m \in documents :
       /\ ~isSummary(m) /\ m.communityId # NULL
       /\ SummariesOf(documents, TheVal(m.communityId)) = {}

(* ------------------- communities after parallel calls ------------------ *)
Component(id) == Within({id}, Cardinality(documents))

(* community_id partitions the documents into the connected components of  *)
(* the relation graph.                                                     *)
CommunitiesAreComponents ==
  \A d, e \in documents :
    /\ d.communityId # NULL
    /\ (d.communityId = e.communityId) <=> (e.id \in Component(d.id))

WithRelations(call) == call.cfg.relations # NULL

(* C26: when the second of two ingest calls with relations on disjoint     *)
(* documents returns, the two having run on an empty database in any       *)
(* interleaving of their statements, community_id partitions the documents *)
(* into the connected components of the relation graph.                    *)
C26_ParallelCommunities ==
  [][(/\ last.op = "ingest" /\ ~last.failed /\ WithRelations(last.call)
      /\ ops = 2
      /\ \E p \in Procs : running[p] # Idle /\ running[p].pc = "done" /\ running'[p] = Idle
      /\ \A p \in Procs : running'[p] = Idle
      /\ last'.op = "ingest" /\ WithRelations(last'.call)
      /\ Range(last.call.docs) \cap Range(last'.call.docs) = {})
       => CommunitiesAreComponents]_vars

(* ------------------- ingest again after a failed call ------------------ *)
(* The chunk links of a document: text and offsets of every chunk_sources  *)
(* row of the document.                                                    *)
LinksOf(ch, cs, docId) ==
  {<<(CHOOSE c \in ch : c.id = x.chunkId).text, x.startIndex, x.endIndex>>
     : x \in {y \in cs : y.documentId = docId /\ \E c \in ch : c.id = y.chunkId}}

(* The chunk links one uninterrupted ingest gives a document.              *)
LinksExpected(d, cfg) ==
  {<<finalTextOf(c, d, cfg), c.startIndex, c.endIndex>> : c \in Range(chunkText(d.content))}

StrictSubstring(part, text) == TextLen(text) > TextLen(part) /\ includes(text, part)

(* C23: with dedup enabled, no result returned by query has a text that is *)
(* a strict substring of the text of another returned result, whatever the *)
(* order in which search ranked the shorter and the longer chunk.          *)
C23_NoSubstringLeft ==
  (last.op = "query" /\ last.call.dedup)
    => \A i, j \in DOMAIN last.result :
         ~StrictSubstring(last.result[i].text, last.result[j].text)

(* ---------------------- connections of one handle ---------------------- *)
(* C27: in any interleaving of operations on one handle, two operations    *)
(* started before the first initialization has finished included, the      *)
(* handle has made at most one connection that is still open, and when     *)
(* close has returned and no operation is running none of its connections  *)
(* is open.                                                                *)
C27_OneConnection ==
  /\ Cardinality(handle.open) <= 1
  /\ (last.op = "close" /\ \A p \in Procs : running[p] = Idle) => handle.open = {}

(* --------------------------- chunker outputs --------------------------- *)
Chunked == last.op = "chunkText"

(* C21: every chunk the chunker emits has at least 50 characters, at most  *)
(* chunk_size characters and no run of 200 or more non-whitespace          *)
(* characters, for every text and every config.                            *)
C21_ChunkBounds ==
  Chunked =>
    \A j \in DOMAIN last.result :
      /\ Len(last.result[j].text) >= MinChunkLen
      /\ Len(last.result[j].text) <= Default(last.call.config.chunkSize, DefaultChunkSize)
      /\ ~RE_OCR_GARBAGE(last.result[j].text)

(* C22: the start_index values of the chunks the chunker emits are         *)
(* strictly increasing along the output list, for every text and config.   *)
C22_StartsIncrease ==
  Chunked =>
    \A j \in DOMAIN last.result :
      j > 1 => last.result[j - 1].startIndex < last.result[j].startIndex

(* C22 witness: the chunker emitted two chunks and the first 80 characters *)
(* of the second occur at two places of the normalized text.               *)
C22_Witness ==
  /\ Chunked
  /\ Len(last.result) >= 2
  /\ LET chunk == last.result[2].text
         n == IF Len(chunk) < NeedleLen THEN Len(chunk) ELSE NeedleLen
     IN  Cardinality({i \in 0..(Len(last.normalized) - n) :
                        SubSeq(last.normalized, i + 1, i + n) = SubSeq(chunk, 1, n)}) >= 2
====
